---- MODULE Spec2Model ----
(***************************************************************************)
(* Authentication, session and permission subsystem of the church          *)
(* management system (src/auth_manager.py, src/auth_ui.py).                *)
(*                                                                         *)
(* The relational store is three tables.  A table with an AUTOINCREMENT    *)
(* key whose rows are never deleted is a sequence: the row id is the       *)
(* index.  A session token is a fresh random string; the model names the   *)
(* token of the i-th session row i, and 0 is a token that was never        *)
(* issued.  Strings the code measures or searches (username, email,        *)
(* password) are sequences of characters.  Time is an integer number of    *)
(* minutes; datetime.now() reads the clock now.  PBKDF2 is an injective    *)
(* function of (password, salt).  The columns no statement of the code      *)
(* tests (created_at, updated_at, last_login, ip_address, user_agent,      *)
(* the details of an audit row) are left out of the rows.  The store is    *)
(* taken to be available: a statement either runs or raises the error the  *)
(* schema defines for it, and a call that raises leaves the tables as it   *)
(* found them.  The exceptions are the INSERT of create_session and the    *)
(* INSERT of log_audit_event, whose failure is an input of the handlers    *)
(* that reach them.                                                        *)
(***************************************************************************)
EXTENDS Integers, Sequences, FiniteSets, TLC

VARIABLES
    users,      \* table users: sequence of rows, id = index
    sessions,   \* table user_sessions: sequence of rows, token = index
    audit,      \* table audit_log: sequence of rows
    now,        \* the wall clock, in minutes
    ss,         \* st.session_state of the one browser session
    inflight,   \* create_user calls between their SELECT and their INSERT
    ret,        \* the call that returned at this instant: operation,
                \* arguments, result
    streak,     \* history: per user id, consecutive failed authenticate calls
    perm,       \* the has_permission query of SpecPerm and its answer
    members,    \* table members: set of rows [id, name]
    pending     \* authenticate_user calls between their SELECT and their
                \* UPDATE

vars == <<users, sessions, audit, now, ss, inflight, ret, streak, perm, members, pending>>

----------------------------------------------------------------------------
(* Bounds of the model *)

MaxUsers == 2        \* rows of users, the default admin included
MaxSessions == 2     \* rows of user_sessions
MaxAudit == 3        \* rows of audit_log
MaxInflight == 2     \* create_user calls in flight at once
MaxAttempts == 6     \* failed_login_attempts stops growing here
MaxTime == 60        \* the clock stops here in the lockout specification
MaxSessionTime == 2880   \* the clock stops here in the session specification
MaxMembers == 2
MaxPageAudit == 5

(* Program constants *)

LOCK_THRESHOLD == 5          \* failed attempts that lock the account
LOCK_MINUTES == 30           \* timedelta(minutes=30)
SESSION_MINUTES == 1440      \* timedelta(hours=24)
MIN_USERNAME == 3
MIN_PASSWORD == 6

NULL == 0 - 1                \* SQL NULL / Python None in a timestamp column
NoToken == 0                 \* session_token None, and a token never issued

----------------------------------------------------------------------------
(* Strings *)

Str_admin == <<"a","d","m","i","n">>
Str_admin_email ==
    <<"a","d","m","i","n","@","c","h","u","r","c","h",".","l","o","c","a","l">>
Str_admin123 == <<"a","d","m","i","n","1","2","3">>
Str_alice == <<"a","l","i","c","e">>
Str_al == <<"a","l">>
Str_alice_email == <<"a","@","x">>
Str_other_email == <<"b","@","x">>
Str_bad_email == <<"a","x">>
Str_secret1 == <<"s","e","c","r","e","t","1">>
Str_wrong == <<"w","r","o","n","g">>
Str_nobody == <<"n","o","b","o","d","y">>

\* '@' in email
Contains(s, ch) == \E i \in 1..Len(s) : s[i] = ch

----------------------------------------------------------------------------
(* UserRole *)

ADMIN == "admin"
TREASURER == "treasurer"
SECRETARY == "secretary"
MEMBER == "member"
VIEWER == "viewer"

get_all_roles == {ADMIN, TREASURER, SECRETARY, MEMBER, VIEWER}

Capabilities ==
    {"view_dashboard", "view_members", "add_members", "edit_members",
     "delete_members", "view_finances", "add_transactions",
     "edit_transactions", "delete_transactions", "view_reports",
     "generate_reports", "manage_users", "system_settings"}

\* dict.update(): the keys of upd become True, the others keep their value
DictUpdate(d, upd) == [k \in DOMAIN d |-> IF k \in upd THEN TRUE ELSE d[k]]

get_role_permissions(role) ==
    LET permissions == [k \in Capabilities |-> FALSE]
    IN  CASE role = ADMIN -> [key \in DOMAIN permissions |-> TRUE]
          [] role = TREASURER ->
                DictUpdate(permissions,
                    {"view_dashboard", "view_members", "add_members",
                     "edit_members", "view_finances", "add_transactions",
                     "edit_transactions", "delete_transactions",
                     "view_reports", "generate_reports"})
          [] role = SECRETARY ->
                DictUpdate(permissions,
                    {"view_dashboard", "view_members", "add_members",
                     "edit_members", "view_finances", "view_reports",
                     "generate_reports"})
          [] role = MEMBER ->
                DictUpdate(permissions,
                    {"view_dashboard", "view_members", "view_finances",
                     "view_reports"})
          [] role = VIEWER ->
                DictUpdate(permissions, {"view_dashboard", "view_reports"})
          [] OTHER -> permissions

\* mutant: a capability the table does not list is granted
has_permission_default_true(user_role, permission) ==
    LET permissions == get_role_permissions(user_role)
    IN  IF permission \in DOMAIN permissions THEN permissions[permission]
        ELSE TRUE

\* permissions.get(permission, False)
has_permission(user_role, permission) ==
    LET permissions == get_role_permissions(user_role)
    IN  IF permission \in DOMAIN permissions THEN permissions[permission]
        ELSE FALSE

----------------------------------------------------------------------------
(* Password hasher *)

\* pbkdf2_hmac('sha256', password, salt, 100000): a one-way function,
\* injective on (password, salt)
pbkdf2_hmac(password, salt) == [pbkdf2 |-> <<password, salt>>]

\* returns (password_hash, salt)
hash_password(password, salt) == <<pbkdf2_hmac(password, salt), salt>>

verify_password(password, password_hash, salt) ==
    hash_password(password, salt)[1] = password_hash

----------------------------------------------------------------------------
(* Rows and results *)

NoData == [none |-> TRUE]

MSG_INVALID == "Invalid username or password"
MSG_LOCKED ==
    "Account is temporarily locked due to too many failed login attempts"
MSG_DEACTIVATED == "Account is deactivated"
MSG_AUTH_OK == "Authentication successful"

\* INSERT INTO users (username, email, password_hash, salt, role, full_name):
\* the other columns take their defaults
NewUserRow(username, email, password_hash, salt, role, full_name) ==
    [username |-> username, email |-> email,
     password_hash |-> password_hash, salt |-> salt,
     role |-> role, full_name |-> full_name,
     is_active |-> TRUE,
     failed_login_attempts |-> 0, locked_until |-> NULL]

\* mutant: a username that matches no row falls back on the first row
UserIdsByName_fallback(username) ==
    IF \E i \in DOMAIN users : users[i].username = username
    THEN {i \in DOMAIN users : users[i].username = username}
    ELSE {1}

\* SELECT ... WHERE username = ?
UserIdsByName(username) == {i \in DOMAIN users : users[i].username = username}

Result(op, args, ok, msg, data) ==
    [op |-> op, args |-> args, ok |-> ok, msg |-> msg, data |-> data]

----------------------------------------------------------------------------
(* Credential store: authenticate_user *)

\* user_dict after password_hash and salt are popped
SanitizedUser(id) ==
    [id |-> id, username |-> users[id].username, email |-> users[id].email,
     role |-> users[id].role, full_name |-> users[id].full_name,
     is_active |-> users[id].is_active,
     failed_login_attempts |-> users[id].failed_login_attempts,
     locked_until |-> users[id].locked_until]

\* mutant: the lock still holds at the instant it runs out
IsLocked_inclusive(user) ==
    user.locked_until # NULL /\ user.locked_until >= now

\* the lock test of authenticate_user
IsLocked(user) == user.locked_until # NULL /\ user.locked_until > now

\* mutant: the account locks one failure late
LockedUntilAfter_late(failed_attempts) ==
    IF failed_attempts > LOCK_THRESHOLD THEN now + LOCK_MINUTES ELSE NULL

\* mutant: only the failure that makes the count 5 locks the account
LockedUntilAfter_once(failed_attempts) ==
    IF failed_attempts = LOCK_THRESHOLD THEN now + LOCK_MINUTES ELSE NULL

\* the lock a failed verification writes
LockedUntilAfter(failed_attempts) ==
    IF failed_attempts >= LOCK_THRESHOLD THEN now + LOCK_MINUTES ELSE NULL

\* mutant: the failure that locks the account already answers "locked"
FailedVerifyMessage_locked(failed_attempts) ==
    IF failed_attempts >= LOCK_THRESHOLD THEN MSG_LOCKED ELSE MSG_INVALID

\* mutant: a failed verification says that the password was the problem
FailedVerifyMessage_password(failed_attempts) == "Incorrect password"

\* the message a failed verification returns
FailedVerifyMessage(failed_attempts) == MSG_INVALID

\* mutant: a successful login leaves the count and the lock as they were
ResetOnSuccess_keep(row) == row

\* UPDATE users SET failed_login_attempts = 0, locked_until = NULL, ...
\* of a successful login
ResetOnSuccess(row) ==
    [row EXCEPT !.failed_login_attempts = 0, !.locked_until = NULL]

\* mutant: the active flag is tested before the lock
authenticate_user_inactive_first(username, password) ==
    LET ids == UserIdsByName(username)
    IN  IF ids = {}
        THEN [ok |-> FALSE, msg |-> MSG_INVALID, data |-> NoData,
              users |-> users]
        ELSE
        LET id == CHOOSE i \in ids : TRUE
            user_dict == users[id]
        IN  IF ~user_dict.is_active
            THEN [ok |-> FALSE, msg |-> MSG_DEACTIVATED, data |-> NoData,
                  users |-> users]
            ELSE IF IsLocked(user_dict)
            THEN [ok |-> FALSE, msg |-> MSG_LOCKED, data |-> NoData,
                  users |-> users]
            ELSE IF ~verify_password(password, user_dict.password_hash,
                                     user_dict.salt)
            THEN LET failed_attempts == user_dict.failed_login_attempts + 1
                     locked_until == LockedUntilAfter(failed_attempts)
                 IN  [ok |-> FALSE,
                      msg |-> FailedVerifyMessage(failed_attempts),
                      data |-> NoData,
                      users |-> [users EXCEPT
                          ![id].failed_login_attempts = failed_attempts,
                          ![id].locked_until = locked_until]]
            ELSE [ok |-> TRUE, msg |-> MSG_AUTH_OK,
                  data |-> SanitizedUser(id),
                  users |-> [users EXCEPT ![id] = ResetOnSuccess(@)]]

\* what authenticate_user(username, password) returns and the users table
\* it leaves: [ok, msg, data, users]
authenticate_user(username, password) ==
    LET ids == UserIdsByName(username)
    IN  IF ids = {}
        THEN [ok |-> FALSE, msg |-> MSG_INVALID, data |-> NoData,
              users |-> users]
        ELSE
        LET id == CHOOSE i \in ids : TRUE
            user_dict == users[id]
        IN  IF IsLocked(user_dict)
            THEN [ok |-> FALSE, msg |-> MSG_LOCKED, data |-> NoData,
                  users |-> users]
            ELSE IF ~user_dict.is_active
            THEN [ok |-> FALSE, msg |-> MSG_DEACTIVATED, data |-> NoData,
                  users |-> users]
            ELSE IF ~verify_password(password, user_dict.password_hash,
                                     user_dict.salt)
            THEN LET failed_attempts == user_dict.failed_login_attempts + 1
                     locked_until == LockedUntilAfter(failed_attempts)
                 IN  [ok |-> FALSE,
                      msg |-> FailedVerifyMessage(failed_attempts),
                      data |-> NoData,
                      users |-> [users EXCEPT
                          ![id].failed_login_attempts = failed_attempts,
                          ![id].locked_until = locked_until]]
            ELSE [ok |-> TRUE, msg |-> MSG_AUTH_OK,
                  data |-> SanitizedUser(id),
                  users |-> [users EXCEPT ![id] = ResetOnSuccess(@)]]

\* no call of the caller is under way
Idle == [busy |-> FALSE]

\* authenticate_user up to its password test, run by caller w: a call
\* refused for the username, the lock or the active flag returns; another
\* goes on, with the row it has read, to verify the password and to write
AuthenticateRead(w, username, password) ==
    LET ids == UserIdsByName(username)
        refusal ==
            IF ids = {} THEN MSG_INVALID
            ELSE LET user_dict == users[CHOOSE i \in ids : TRUE]
                 IN  IF IsLocked(user_dict) THEN MSG_LOCKED
                     ELSE IF ~user_dict.is_active THEN MSG_DEACTIVATED
                     ELSE ""
    IN  /\ ~pending[w].busy
        /\ IF refusal # ""
           THEN /\ ret' = Result("authenticate", <<username, password>>,
                                 FALSE, refusal, NoData)
                /\ UNCHANGED pending
           ELSE /\ pending' = [pending EXCEPT ![w] =
                       [busy |-> TRUE, id |-> CHOOSE i \in ids : TRUE,
                        user_dict |-> users[CHOOSE i \in ids : TRUE],
                        username |-> username, password |-> password]]
                /\ UNCHANGED ret
        /\ UNCHANGED <<users, sessions, audit, now, ss, inflight, streak,
                       perm, members>>

\* the password test of caller w, its UPDATE and its return; the values
\* written are computed from the row read before
AuthenticateWrite(w) ==
    /\ pending[w].busy
    /\ LET c == pending[w]
           user_dict == c.user_dict
           failed_attempts == user_dict.failed_login_attempts + 1
       IN  IF ~verify_password(c.password, user_dict.password_hash,
                               user_dict.salt)
           THEN /\ failed_attempts <= MaxAttempts
                /\ users' = [users EXCEPT
                       ![c.id].failed_login_attempts = failed_attempts,
                       ![c.id].locked_until =
                           LockedUntilAfter(failed_attempts)]
                /\ streak' = IF streak[c.id].n < LOCK_THRESHOLD
                      THEN [streak EXCEPT ![c.id] =
                              [n |-> @.n + 1,
                               at |-> IF @.n + 1 = LOCK_THRESHOLD
                                      THEN now ELSE @.at]]
                      ELSE streak
                /\ ret' = Result("authenticate", <<c.username, c.password>>,
                                 FALSE, FailedVerifyMessage(failed_attempts),
                                 NoData)
           ELSE /\ users' = [users EXCEPT ![c.id] = ResetOnSuccess(@)]
                /\ streak' = [streak EXCEPT ![c.id] = [n |-> 0, at |-> NULL]]
                /\ ret' = Result("authenticate", <<c.username, c.password>>,
                                 TRUE, MSG_AUTH_OK,
                                 [id |-> c.id, username |-> user_dict.username,
                                  email |-> user_dict.email,
                                  role |-> user_dict.role,
                                  full_name |-> user_dict.full_name,
                                  is_active |-> user_dict.is_active,
                                  failed_login_attempts |->
                                      user_dict.failed_login_attempts,
                                  locked_until |-> user_dict.locked_until])
    /\ pending' = [pending EXCEPT ![w] = Idle]
    /\ UNCHANGED <<sessions, audit, now, ss, inflight, perm, members>>

\* History of the calls: streak[id].n counts, up to LOCK_THRESHOLD, the
\* failed calls with a wrong password made for the active user id since its
\* creation or its last successful call; streak[id].at is the time of the
\* call that made the count LOCK_THRESHOLD.
StreakAfter(username, password, out) ==
    LET ids == UserIdsByName(username)
    IN  IF ids = {} THEN streak
        ELSE
        LET id == CHOOSE i \in ids : TRUE
            wrong == ~verify_password(password, users[id].password_hash,
                                      users[id].salt)
        IN  IF out.ok THEN [streak EXCEPT ![id] = [n |-> 0, at |-> NULL]]
            ELSE IF wrong /\ users[id].is_active
                    /\ streak[id].n < LOCK_THRESHOLD
            THEN [streak EXCEPT ![id] =
                    [n |-> @.n + 1,
                     at |-> IF @.n + 1 = LOCK_THRESHOLD THEN now ELSE @.at]]
            ELSE streak

Authenticate(username, password) ==
    LET out == authenticate_user(username, password)
    IN  /\ \A i \in DOMAIN out.users :
              out.users[i].failed_login_attempts <= MaxAttempts
        /\ users' = out.users
        /\ streak' = StreakAfter(username, password, out)
        /\ ret' = Result("authenticate", <<username, password>>,
                         out.ok, out.msg, out.data)
        /\ UNCHANGED <<sessions, audit, now, ss, inflight, perm, members, pending>>

----------------------------------------------------------------------------
(* Session store *)

\* mutant: the lifetime is subtracted
ExpiresAt_past == now - SESSION_MINUTES

\* expires_at of a session created now
ExpiresAt == now + SESSION_MINUTES

\* the expiry test of validate_session
IsExpired(expires_at) == expires_at < now

create_session(user_id) ==
    Append(sessions,
           [user_id |-> user_id, expires_at |-> ExpiresAt,
            is_active |-> TRUE])

\* create_session when its INSERT runs (store_ok) or raises: the except
\* branch returns (False, "Error creating session", None):
\* [ok, token, sessions]
create_session_result(user_id, store_ok) ==
    IF store_ok
    THEN [ok |-> TRUE, token |-> Len(sessions) + 1,
          sessions |-> create_session(user_id)]
    ELSE [ok |-> FALSE, token |-> NoToken, sessions |-> sessions]

CreateSession(user_id) ==
    /\ Len(sessions) < MaxSessions
    /\ sessions' = create_session(user_id)
    /\ ret' = Result("create_session", <<user_id>>, TRUE,
                     "Session created successfully",
                     [token |-> Len(sessions) + 1])
    /\ UNCHANGED <<users, audit, now, ss, inflight, streak, perm, members, pending>>

\* mutant: the query does not test s.is_active
SessionJoin_anyflag(session_token) ==
    {i \in DOMAIN sessions :
        i = session_token /\ sessions[i].user_id \in DOMAIN users}

\* SELECT ... FROM user_sessions s JOIN users u ON s.user_id = u.id
\* WHERE s.session_token = ? AND s.is_active = TRUE
SessionJoin(session_token) ==
    {i \in DOMAIN sessions :
        /\ i = session_token
        /\ sessions[i].is_active
        /\ sessions[i].user_id \in DOMAIN users}

SessionDict(i) ==
    LET u == users[sessions[i].user_id]
    IN  [user_id |-> sessions[i].user_id,
         expires_at |-> sessions[i].expires_at,
         username |-> u.username, email |-> u.email, role |-> u.role,
         full_name |-> u.full_name, is_active |-> u.is_active]

\* mutant: the session of a deactivated user is marked inactive
validate_session_revoking(session_token) ==
    LET rows == SessionJoin(session_token)
    IN  IF rows = {}
        THEN [ok |-> FALSE, data |-> NoData, sessions |-> sessions]
        ELSE
        LET i == CHOOSE r \in rows : TRUE
            session_dict == SessionDict(i)
        IN  IF IsExpired(session_dict.expires_at) \/ ~session_dict.is_active
            THEN [ok |-> FALSE, data |-> NoData,
                  sessions |-> [sessions EXCEPT ![i].is_active = FALSE]]
            ELSE [ok |-> TRUE, data |-> session_dict, sessions |-> sessions]

\* what validate_session(session_token) returns and the sessions table it
\* leaves: [ok, data, sessions]
validate_session(session_token) ==
    LET rows == SessionJoin(session_token)
    IN  IF rows = {}
        THEN [ok |-> FALSE, data |-> NoData, sessions |-> sessions]
        ELSE
        LET i == CHOOSE r \in rows : TRUE
            session_dict == SessionDict(i)
        IN  IF IsExpired(session_dict.expires_at)
            THEN [ok |-> FALSE, data |-> NoData,
                  sessions |-> [sessions EXCEPT ![i].is_active = FALSE]]
            ELSE IF ~session_dict.is_active
            THEN [ok |-> FALSE, data |-> NoData, sessions |-> sessions]
            ELSE [ok |-> TRUE, data |-> session_dict, sessions |-> sessions]

ValidateSession(session_token) ==
    LET out == validate_session(session_token)
    IN  /\ sessions' = out.sessions
        /\ ret' = Result("validate_session", <<session_token>>, out.ok,
                         "", out.data)
        /\ UNCHANGED <<users, audit, now, ss, inflight, streak, perm, members, pending>>

\* mutant: the UPDATE is never committed
logout_user_uncommitted(session_token) == sessions

\* mutant: the UPDATE flips the flag of the row
logout_user_toggling(session_token) ==
    [i \in DOMAIN sessions |->
        IF i = session_token
        THEN [sessions[i] EXCEPT !.is_active = ~sessions[i].is_active]
        ELSE sessions[i]]

\* UPDATE user_sessions SET is_active = FALSE WHERE session_token = ?
logout_user(session_token) ==
    [i \in DOMAIN sessions |->
        IF i = session_token THEN [sessions[i] EXCEPT !.is_active = FALSE]
        ELSE sessions[i]]

LogoutUser(session_token) ==
    /\ sessions' = logout_user(session_token)
    /\ ret' = Result("logout_user", <<session_token>>, TRUE, "", NoData)
    /\ UNCHANGED <<users, audit, now, ss, inflight, streak, perm, members, pending>>

----------------------------------------------------------------------------
(* Credential store: create_user *)

MSG_USERNAME_SHORT == "Username must be at least 3 characters long"
MSG_EMAIL_INVALID == "Valid email address is required"
MSG_PASSWORD_SHORT == "Password must be at least 6 characters long"
MSG_ROLE_INVALID == "Invalid role"
MSG_EXISTS == "Username or email already exists"
MSG_CREATE_ERROR == "Error creating user"
MSG_CREATED == "User created successfully"

\* the role test of create_user
RoleAllowed(role) == role \in get_all_roles

\* mutant: the length of the password is not tested
ValidateNewUser_anypassword(username, email, password, role) ==
    IF Len(username) < MIN_USERNAME THEN MSG_USERNAME_SHORT
    ELSE IF ~Contains(email, "@") THEN MSG_EMAIL_INVALID
    ELSE IF ~RoleAllowed(role) THEN MSG_ROLE_INVALID
    ELSE ""

\* the input validation of create_user: the message of the first test that
\* fails, "" when all pass
ValidateNewUser(username, email, password, role) ==
    IF Len(username) < MIN_USERNAME THEN MSG_USERNAME_SHORT
    ELSE IF ~Contains(email, "@") THEN MSG_EMAIL_INVALID
    ELSE IF Len(password) < MIN_PASSWORD THEN MSG_PASSWORD_SHORT
    ELSE IF ~RoleAllowed(role) THEN MSG_ROLE_INVALID
    ELSE ""

\* SELECT id FROM users WHERE username = ? OR email = ?
UserExists(username, email) ==
    \E i \in DOMAIN users :
        users[i].username = username \/ users[i].email = email

\* mutant: the columns are not declared UNIQUE
UniqueViolated_never(id, username, email) == FALSE

\* the UNIQUE constraints of table users, for a row written at id (a new
\* row has an id no row holds)
UniqueViolated(id, username, email) ==
    \E i \in DOMAIN users :
        i # id /\ (users[i].username = username \/ users[i].email = email)

\* create_user up to and including its SELECT: a refused call returns, an
\* accepted one goes on to its INSERT
CreateUserBegin(w, username, email, password, full_name, role) ==
    LET msg == ValidateNewUser(username, email, password, role)
    IN  /\ ~inflight[w].busy
        /\ IF msg # ""
           THEN /\ ret' = Result("create_user", <<username, email>>, FALSE,
                                 msg, NoData)
                /\ UNCHANGED inflight
           ELSE IF UserExists(username, email)
           THEN /\ ret' = Result("create_user", <<username, email>>, FALSE,
                                 MSG_EXISTS, NoData)
                /\ UNCHANGED inflight
           ELSE /\ inflight' = [inflight EXCEPT ![w] =
                       [busy |-> TRUE, username |-> username,
                        email |-> email, password |-> password,
                        full_name |-> full_name, role |-> role]]
                /\ UNCHANGED ret
        /\ UNCHANGED <<users, sessions, audit, now, ss, streak, perm, members, pending>>

\* the INSERT of create_user and its return
CreateUserInsert(w, salt) ==
    /\ inflight[w].busy
    /\ LET c == inflight[w]
       IN  IF UniqueViolated(Len(users) + 1, c.username, c.email)
           THEN /\ ret' = Result("create_user", <<c.username, c.email>>,
                                 FALSE, MSG_CREATE_ERROR, NoData)
                /\ UNCHANGED <<users, streak>>
           ELSE /\ Len(users) < MaxUsers
                /\ users' = Append(users,
                       NewUserRow(c.username, c.email,
                                  hash_password(c.password, salt)[1],
                                  hash_password(c.password, salt)[2],
                                  c.role, c.full_name))
                /\ streak' = Append(streak, [n |-> 0, at |-> NULL])
                /\ ret' = Result("create_user", <<c.username, c.email>>,
                                 TRUE, MSG_CREATED,
                                 [user_id |-> Len(users) + 1])
    /\ inflight' = [inflight EXCEPT ![w] = Idle]
    /\ UNCHANGED <<sessions, audit, now, ss, perm, members, pending>>

\* what create_user returns and the users table it leaves when no other
\* writer comes between its SELECT and its INSERT: [ok, msg, data, users]
create_user(username, email, password, full_name, role, salt) ==
    LET msg == ValidateNewUser(username, email, password, role)
    IN  IF msg # ""
        THEN [ok |-> FALSE, msg |-> msg, data |-> NoData, users |-> users]
        ELSE IF UserExists(username, email)
        THEN [ok |-> FALSE, msg |-> MSG_EXISTS, data |-> NoData,
              users |-> users]
        ELSE [ok |-> TRUE, msg |-> MSG_CREATED,
              data |-> [user_id |-> Len(users) + 1],
              users |-> Append(users,
                  NewUserRow(username, email,
                             hash_password(password, salt)[1],
                             hash_password(password, salt)[2],
                             role, full_name))]

----------------------------------------------------------------------------
(* Credential store: update_user, change_password *)

\* mutant: the whitelist lets the username through
allowed_fields_username ==
    {"email", "role", "full_name", "is_active", "username"}

\* mutant: the columns of the lockout can be set through update_user
allowed_fields_lockout ==
    {"email", "role", "full_name", "is_active", "failed_login_attempts",
     "locked_until"}

allowed_fields == {"email", "role", "full_name", "is_active"}

MSG_NO_FIELDS == "No valid fields to update"
MSG_NOT_FOUND == "User not found"
MSG_UPDATE_ERROR == "Error updating user"
MSG_UPDATED == "User updated successfully"

\* the columns the UPDATE of update_user sets from kwargs
UpdateFields(kwargs) == DOMAIN kwargs \cap allowed_fields

\* UPDATE users SET {update_fields}
UpdatedRow(row, kwargs) ==
    [f \in DOMAIN row |->
        IF f \in UpdateFields(kwargs) THEN kwargs[f] ELSE row[f]]

\* what update_user(user_id, **kwargs) returns and the users table it
\* leaves: [ok, msg, users]
update_user(user_id, kwargs) ==
    IF UpdateFields(kwargs) = {}
    THEN [ok |-> FALSE, msg |-> MSG_NO_FIELDS, users |-> users]
    ELSE IF user_id \notin DOMAIN users
    THEN [ok |-> FALSE, msg |-> MSG_NOT_FOUND, users |-> users]
    ELSE LET row == UpdatedRow(users[user_id], kwargs)
         IN  IF UniqueViolated(user_id, row.username, row.email)
             THEN [ok |-> FALSE, msg |-> MSG_UPDATE_ERROR, users |-> users]
             ELSE [ok |-> TRUE, msg |-> MSG_UPDATED,
                   users |-> [users EXCEPT ![user_id] = row]]

UpdateUser(user_id, kwargs) ==
    LET out == update_user(user_id, kwargs)
    IN  /\ users' = out.users
        /\ ret' = Result("update_user", <<user_id, kwargs>>, out.ok,
                         out.msg, NoData)
        /\ UNCHANGED <<sessions, audit, now, ss, inflight, streak, perm, members, pending>>

MSG_WRONG_PASSWORD == "Current password is incorrect"
MSG_NEW_PASSWORD_SHORT == "New password must be at least 6 characters long"
MSG_PASSWORD_CHANGED == "Password changed successfully"

\* mutant: the old password is not verified
change_password_unverified(user_id, old_password, new_password, salt) ==
    IF user_id \notin DOMAIN users
    THEN [ok |-> FALSE, msg |-> MSG_NOT_FOUND, users |-> users]
    ELSE IF Len(new_password) < MIN_PASSWORD
    THEN [ok |-> FALSE, msg |-> MSG_NEW_PASSWORD_SHORT, users |-> users]
    ELSE [ok |-> TRUE, msg |-> MSG_PASSWORD_CHANGED,
          users |-> [users EXCEPT
              ![user_id].password_hash = hash_password(new_password, salt)[1],
              ![user_id].salt = hash_password(new_password, salt)[2]]]

\* what change_password(user_id, old_password, new_password) returns and the
\* users table it leaves, salt being the fresh salt: [ok, msg, users]
change_password(user_id, old_password, new_password, salt) ==
    IF user_id \notin DOMAIN users
    THEN [ok |-> FALSE, msg |-> MSG_NOT_FOUND, users |-> users]
    ELSE IF ~verify_password(old_password, users[user_id].password_hash,
                             users[user_id].salt)
    THEN [ok |-> FALSE, msg |-> MSG_WRONG_PASSWORD, users |-> users]
    ELSE IF Len(new_password) < MIN_PASSWORD
    THEN [ok |-> FALSE, msg |-> MSG_NEW_PASSWORD_SHORT, users |-> users]
    ELSE [ok |-> TRUE, msg |-> MSG_PASSWORD_CHANGED,
          users |-> [users EXCEPT
              ![user_id].password_hash = hash_password(new_password, salt)[1],
              ![user_id].salt = hash_password(new_password, salt)[2]]]

ChangePassword(user_id, old_password, new_password, salt) ==
    LET out == change_password(user_id, old_password, new_password, salt)
    IN  /\ users' = out.users
        /\ ret' = Result("change_password", <<user_id>>, out.ok, out.msg,
                         NoData)
        /\ UNCHANGED <<sessions, audit, now, ss, inflight, streak, perm, members, pending>>

----------------------------------------------------------------------------
(* Audit log *)

\* INSERT INTO audit_log (user_id, action, ...)
log_audit_event(user_id, action) ==
    Append(audit, [user_id |-> user_id, action |-> action])

\* mutant: the exception of a failed INSERT reaches the caller
log_audit_event_result_raising(user_id, action, store_ok) ==
    [audit |-> IF store_ok THEN log_audit_event(user_id, action) ELSE audit,
     raised |-> ~store_ok]

\* log_audit_event when its INSERT runs (store_ok) or raises: the except
\* branch prints the error and returns: [audit, raised]
log_audit_event_result(user_id, action, store_ok) ==
    [audit |-> IF store_ok THEN log_audit_event(user_id, action) ELSE audit,
     raised |-> FALSE]

\* the outcome of a handler that an exception left half-way
EXC_UNCAUGHT == "uncaught exception"

----------------------------------------------------------------------------
(* Bootstrap: initialize_auth_tables, create_default_admin *)

MSG_INITIALIZED == "Authentication tables initialized successfully"

\* the row create_default_admin asks create_user for
DefaultAdminRow(salt) ==
    NewUserRow(Str_admin, Str_admin_email,
               hash_password(Str_admin123, salt)[1],
               hash_password(Str_admin123, salt)[2],
               ADMIN, "System Administrator")

\* mutant: the default credential is restored on every run
initialize_auth_tables_restoring(salt) ==
    IF Len(users) = 0
    THEN [users |-> <<DefaultAdminRow(salt)>>,
          audit |-> log_audit_event(1, "USER_CREATED")]
    ELSE [users |-> [users EXCEPT ![1] = DefaultAdminRow(salt)],
          audit |-> audit]

\* the tables initialize_auth_tables leaves, the CREATE TABLE IF NOT EXISTS
\* statements done: [users, audit]
initialize_auth_tables(salt) ==
    IF Len(users) = 0
    THEN LET out == create_user(Str_admin, Str_admin_email, Str_admin123,
                                "System Administrator", ADMIN, salt)
         IN  [users |-> out.users,
              audit |-> IF out.ok
                        THEN log_audit_event(out.data.user_id,
                                             "USER_CREATED")
                        ELSE audit]
    ELSE [users |-> users, audit |-> audit]

InitializeAuthTables(salt) ==
    LET out == initialize_auth_tables(salt)
    IN  /\ Len(out.audit) <= MaxAudit
        /\ users' = out.users
        /\ audit' = out.audit
        /\ streak' = IF Len(out.users) > Len(users)
                      THEN Append(streak, [n |-> 0, at |-> NULL])
                      ELSE streak
        /\ ret' = Result("initialize_auth_tables", <<salt>>, TRUE,
                         MSG_INITIALIZED, NoData)
        /\ UNCHANGED <<sessions, now, ss, inflight, perm, members, pending>>

----------------------------------------------------------------------------
(* Presentation layer: st.session_state, login, logout *)

LoggedOut ==
    [authenticated |-> FALSE, user |-> NoData, session_token |-> NoToken]

\* mutant: the user kept in the session state is not replaced by the one
\* validate_session returns
check_authentication_stale ==
    IF ss.authenticated /\ ss.session_token # NoToken
    THEN LET out == validate_session(ss.session_token)
         IN  IF out.ok
             THEN [ok |-> TRUE, ss |-> ss, sessions |-> out.sessions]
             ELSE [ok |-> FALSE, ss |-> LoggedOut,
                   sessions |-> out.sessions]
    ELSE [ok |-> FALSE, ss |-> ss, sessions |-> sessions]

\* what check_authentication() returns, the session state and the sessions
\* table it leaves: [ok, ss, sessions]
check_authentication ==
    IF ss.authenticated /\ ss.session_token # NoToken
    THEN LET out == validate_session(ss.session_token)
         IN  IF out.ok
             THEN [ok |-> TRUE, ss |-> [ss EXCEPT !.user = out.data],
                   sessions |-> out.sessions]
             ELSE [ok |-> FALSE, ss |-> LoggedOut,
                   sessions |-> out.sessions]
    ELSE [ok |-> FALSE, ss |-> ss, sessions |-> sessions]

CheckAuthentication ==
    LET out == check_authentication
    IN  /\ ss' = out.ss
        /\ sessions' = out.sessions
        /\ ret' = Result("check_authentication", <<ss.session_token>>,
                         out.ok, "", NoData)
        /\ UNCHANGED <<users, audit, now, inflight, streak, perm, members, pending>>

MSG_SESSION_FAILED == "Failed to create session. Please try again."

\* what handle_login(username, password) shows and the tables and session
\* state it leaves, session_ok and audit_ok telling whether the INSERT of
\* create_session and that of log_audit_event run:
\* [ok, msg, users, sessions, ss, audit]
handle_login(username, password, session_ok, audit_ok) ==
    LET auth == authenticate_user(username, password)
    IN  IF auth.ok
        THEN LET cs == create_session_result(auth.data.id, session_ok)
             IN  IF cs.ok
                 THEN LET log == log_audit_event_result(
                                     auth.data.id, "LOGIN_SUCCESS", audit_ok)
                      IN  [ok |-> ~log.raised,
                           msg |-> IF log.raised THEN EXC_UNCAUGHT
                                   ELSE auth.msg,
                           users |-> auth.users,
                           sessions |-> cs.sessions,
                           ss |-> [authenticated |-> TRUE,
                                   user |-> auth.data,
                                   session_token |-> cs.token],
                           audit |-> log.audit]
                 ELSE [ok |-> FALSE, msg |-> MSG_SESSION_FAILED,
                       users |-> auth.users, sessions |-> cs.sessions,
                       ss |-> ss, audit |-> audit]
        ELSE LET log == log_audit_event_result(NULL, "LOGIN_FAILED",
                                               audit_ok)
             IN  [ok |-> FALSE,
                  msg |-> IF log.raised THEN EXC_UNCAUGHT ELSE auth.msg,
                  users |-> auth.users, sessions |-> sessions, ss |-> ss,
                  audit |-> log.audit]

\* handle_login(username, password), called with both fields filled in
HandleLoginUnder(username, password, session_ok, audit_ok) ==
    LET out == handle_login(username, password, session_ok, audit_ok)
    IN  /\ Len(username) > 0 /\ Len(password) > 0
        /\ Len(out.audit) <= MaxAudit
        /\ Len(out.sessions) <= MaxSessions
        /\ \A i \in DOMAIN out.users :
              out.users[i].failed_login_attempts <= MaxAttempts
        /\ users' = out.users
        /\ sessions' = out.sessions
        /\ ss' = out.ss
        /\ audit' = out.audit
        /\ streak' = StreakAfter(username, password,
                                 authenticate_user(username, password))
        /\ ret' = Result("handle_login", <<username, password>>, out.ok,
                         out.msg, NoData)
        /\ UNCHANGED <<now, inflight, perm, members, pending>>

\* handle_login while the store is available
HandleLogin(username, password) ==
    HandleLoginUnder(username, password, TRUE, TRUE)

\* what the run of render_logout_button in which the Logout button, shown
\* by the previous run, is clicked shows and leaves:
\* [ok, msg, sessions, ss, audit]
render_logout_button(audit_ok) ==
    LET chk == check_authentication
    IN  IF chk.ok
        THEN LET log == log_audit_event_result(chk.ss.user.user_id,
                                               "LOGOUT", audit_ok)
             IN  [ok |-> ~log.raised,
                  msg |-> IF log.raised THEN EXC_UNCAUGHT ELSE "",
                  sessions |-> logout_user(ss.session_token),
                  ss |-> IF log.raised THEN chk.ss ELSE LoggedOut,
                  audit |-> log.audit]
        ELSE [ok |-> FALSE, msg |-> "", sessions |-> chk.sessions,
              ss |-> chk.ss, audit |-> audit]

RenderLogoutButtonUnder(audit_ok) ==
    LET out == render_logout_button(audit_ok)
    IN  /\ ss.authenticated
        /\ Len(out.audit) <= MaxAudit
        /\ sessions' = out.sessions
        /\ ss' = out.ss
        /\ audit' = out.audit
        /\ ret' = Result("render_logout_button", <<ss.session_token>>,
                         out.ok, out.msg, NoData)
        /\ UNCHANGED <<users, now, inflight, streak, perm, members, pending>>

\* render_logout_button while the store is available
RenderLogoutButton == RenderLogoutButtonUnder(TRUE)

----------------------------------------------------------------------------
(* Presentation layer: user management and profile forms *)

MSG_ALL_REQUIRED == "All fields are required."
MSG_PASSWORDS_DIFFER == "Passwords do not match."
MSG_ACTIVATED == "User has been activated."
MSG_DEACTIVATED_BY_ADMIN == "User has been deactivated."
MSG_ALL_PASSWORDS_REQUIRED == "All password fields are required."
MSG_NEW_PASSWORDS_DIFFER == "New passwords do not match."
MSG_NEW_PASSWORD_SHORT_FORM ==
    "New password must be at least 6 characters long."

\* the two tests render_user_management makes before it draws its forms
ManagesUsers(chk) ==
    chk.ok /\ has_permission(chk.ss.user.role, "manage_users")

\* what the submitted form of render_add_user_form shows and leaves, actor
\* being st.session_state.user['user_id']: [ok, msg, users, audit]
render_add_user_form(actor, username, email, full_name, password, confirm_password, role, salt, audit_ok) ==
    IF \/ Len(username) = 0 \/ Len(email) = 0 \/ full_name = ""
       \/ Len(password) = 0 \/ Len(confirm_password) = 0
    THEN [ok |-> FALSE, msg |-> MSG_ALL_REQUIRED, users |-> users,
          audit |-> audit]
    ELSE IF password # confirm_password
    THEN [ok |-> FALSE, msg |-> MSG_PASSWORDS_DIFFER, users |-> users,
          audit |-> audit]
    ELSE LET out == create_user(username, email, password, full_name, role,
                                salt)
         IN  IF out.ok
             THEN LET log == log_audit_event_result(actor, "USER_CREATED",
                                                    audit_ok)
                  IN  [ok |-> ~log.raised,
                       msg |-> IF log.raised THEN EXC_UNCAUGHT ELSE out.msg,
                       users |-> out.users, audit |-> log.audit]
             ELSE [ok |-> FALSE, msg |-> out.msg, users |-> out.users,
                   audit |-> audit]

RenderAddUserForm(username, email, full_name, password, confirm_password, role, salt, audit_ok) ==
    LET chk == check_authentication
    IN  /\ ManagesUsers(chk)
        /\ LET out == render_add_user_form(chk.ss.user.user_id, username,
                           email, full_name, password, confirm_password,
                           role, salt, audit_ok)
           IN  /\ Len(out.users) <= MaxUsers
               /\ Len(out.audit) <= MaxAudit
               /\ users' = out.users
               /\ audit' = out.audit
               /\ streak' = IF Len(out.users) > Len(users)
                             THEN Append(streak, [n |-> 0, at |-> NULL])
                             ELSE streak
               /\ ret' = Result("render_add_user_form",
                                <<username, email, password,
                                  confirm_password>>,
                                out.ok, out.msg, NoData)
        /\ ss' = chk.ss
        /\ sessions' = chk.sessions
        /\ UNCHANGED <<now, inflight, perm, members, pending>>

\* what toggle_user_status(user_id, user_data) shows and leaves for a user
\* of the list: [ok, msg, users, audit]
toggle_user_status(actor, user_id, audit_ok) ==
    LET new_status == ~users[user_id].is_active
        out == update_user(user_id, [is_active |-> new_status])
    IN  IF out.ok
        THEN LET log == log_audit_event_result(actor, "USER_STATUS_CHANGED",
                                               audit_ok)
             IN  [ok |-> ~log.raised,
                  msg |-> IF log.raised THEN EXC_UNCAUGHT
                          ELSE IF new_status THEN MSG_ACTIVATED
                          ELSE MSG_DEACTIVATED_BY_ADMIN,
                  users |-> out.users, audit |-> log.audit]
        ELSE [ok |-> FALSE, msg |-> out.msg, users |-> out.users,
              audit |-> audit]

ToggleUserStatus(user_id, audit_ok) ==
    LET chk == check_authentication
    IN  /\ ManagesUsers(chk)
        /\ user_id \in DOMAIN users
        /\ LET out == toggle_user_status(chk.ss.user.user_id, user_id,
                                         audit_ok)
           IN  /\ Len(out.audit) <= MaxAudit
               /\ users' = out.users
               /\ audit' = out.audit
               /\ ret' = Result("toggle_user_status", <<user_id>>, out.ok,
                                out.msg, NoData)
        /\ ss' = chk.ss
        /\ sessions' = chk.sessions
        /\ UNCHANGED <<now, inflight, streak, perm, members, pending>>

\* what the submitted password form of render_profile_management shows and
\* leaves, user_id being that of st.session_state.user:
\* [ok, msg, users, audit]
change_password_form(user_id, current_password, new_password, confirm_new_password, salt, audit_ok) ==
    IF \/ Len(current_password) = 0 \/ Len(new_password) = 0
       \/ Len(confirm_new_password) = 0
    THEN [ok |-> FALSE, msg |-> MSG_ALL_PASSWORDS_REQUIRED, users |-> users,
          audit |-> audit]
    ELSE IF new_password # confirm_new_password
    THEN [ok |-> FALSE, msg |-> MSG_NEW_PASSWORDS_DIFFER, users |-> users,
          audit |-> audit]
    ELSE IF Len(new_password) < MIN_PASSWORD
    THEN [ok |-> FALSE, msg |-> MSG_NEW_PASSWORD_SHORT_FORM,
          users |-> users, audit |-> audit]
    ELSE LET out == change_password(user_id, current_password,
                                    new_password, salt)
         IN  IF out.ok
             THEN LET log == log_audit_event_result(
                                 user_id, "PASSWORD_CHANGED", audit_ok)
                  IN  [ok |-> ~log.raised,
                       msg |-> IF log.raised THEN EXC_UNCAUGHT ELSE out.msg,
                       users |-> out.users, audit |-> log.audit]
             ELSE [ok |-> FALSE, msg |-> out.msg, users |-> out.users,
                   audit |-> audit]

ChangePasswordForm(current_password, new_password, confirm_new_password, salt, audit_ok) ==
    LET chk == check_authentication
    IN  /\ chk.ok
        /\ LET out == change_password_form(chk.ss.user.user_id,
                           current_password, new_password,
                           confirm_new_password, salt, audit_ok)
           IN  /\ Len(out.audit) <= MaxAudit
               /\ users' = out.users
               /\ audit' = out.audit
               /\ ret' = Result("change_password_form",
                                <<current_password, new_password,
                                  confirm_new_password>>,
                                out.ok, out.msg, NoData)
        /\ ss' = chk.ss
        /\ sessions' = chk.sessions
        /\ UNCHANGED <<now, inflight, streak, perm, members, pending>>

\* mutant: the role kept in the session state is trusted without
\* validating the session
check_page_permission_unvalidated(permission) ==
    [ok |-> ss.authenticated /\ has_permission(ss.user.role, permission),
     ss |-> ss, sessions |-> sessions]

\* what check_page_permission(permission) returns, the session state and
\* the sessions table it leaves: [ok, ss, sessions].  The wrapper of
\* require_permission makes the same two tests.
check_page_permission(permission) ==
    LET chk == check_authentication
    IN  IF ~chk.ok
        THEN [ok |-> FALSE, ss |-> chk.ss, sessions |-> chk.sessions]
        ELSE [ok |-> has_permission(chk.ss.user.role, permission),
              ss |-> chk.ss, sessions |-> chk.sessions]

CheckPagePermission(permission) ==
    LET out == check_page_permission(permission)
    IN  /\ ss' = out.ss
        /\ sessions' = out.sessions
        /\ ret' = Result("check_page_permission",
                         <<ss.session_token, permission>>, out.ok, "",
                         NoData)
        /\ UNCHANGED <<users, audit, now, inflight, streak, perm, members, pending>>

----------------------------------------------------------------------------
(* Membership Management page: member_manager and membership_ui.  Of a     *)
(* member row the model keeps id and name; the other fields of the forms   *)
(* are left at values that validate, the optional email and mobile number  *)
(* blank.  The id an INSERT gives is any id no row carries.                *)

MIN_MEMBER_NAME == 2
Str_blank_a == <<" ","a">>

MSG_MEMBER_NAME_SHORT == "Name must be at least 2 characters long"
MSG_MEMBER_NAME_REQUIRED == "Member name is required!"
MSG_MEMBER_NOT_FOUND == "Member not found"
MSG_MEMBER_ADDED == "Member added successfully"
MSG_MEMBER_UPDATED == "Member updated successfully"
MSG_MEMBER_DELETED == "Member deleted successfully"
MSG_NO_MEMBERSHIP == "You don't have permission to view membership management."
MSG_LOGIN_PAGE == "login page"

\* str.strip() for the blank character
RECURSIVE StripLeft(_)
StripLeft(str) ==
    IF Len(str) > 0 /\ Head(str) = " " THEN StripLeft(Tail(str)) ELSE str

RECURSIVE StripRight(_)
StripRight(str) ==
    IF Len(str) > 0 /\ str[Len(str)] = " "
    THEN StripRight(SubSeq(str, 1, Len(str) - 1))
    ELSE str

Strip(str) == StripRight(StripLeft(str))

validate_member_data(name) ==
    IF Len(name) = 0 \/ Len(Strip(name)) < MIN_MEMBER_NAME
    THEN [ok |-> FALSE, msg |-> MSG_MEMBER_NAME_SHORT]
    ELSE [ok |-> TRUE, msg |-> ""]

MemberIds == {m.id : m \in members}

\* add_member: [ok, msg, members]
add_member(name, new_id) ==
    LET v == validate_member_data(name)
    IN  IF ~v.ok THEN [ok |-> FALSE, msg |-> v.msg, members |-> members]
        ELSE [ok |-> TRUE, msg |-> MSG_MEMBER_ADDED,
              members |-> members \cup {[id |-> new_id,
                                         name |-> Strip(name)]}]

\* update_member: [ok, msg, members]
update_member(member_id, name) ==
    LET v == validate_member_data(name)
    IN  IF ~v.ok THEN [ok |-> FALSE, msg |-> v.msg, members |-> members]
        ELSE IF member_id \notin MemberIds
        THEN [ok |-> FALSE, msg |-> MSG_MEMBER_NOT_FOUND,
              members |-> members]
        ELSE [ok |-> TRUE, msg |-> MSG_MEMBER_UPDATED,
              members |-> {IF m.id = member_id
                           THEN [id |-> m.id, name |-> Strip(name)]
                           ELSE m : m \in members}]

\* delete_member: [ok, msg, members]
delete_member(member_id) ==
    IF member_id \notin MemberIds
    THEN [ok |-> FALSE, msg |-> MSG_MEMBER_NOT_FOUND, members |-> members]
    ELSE [ok |-> TRUE, msg |-> MSG_MEMBER_DELETED,
          members |-> {m \in members : m.id # member_id}]

MemberButtons == {"Add Member", "Update Member", "Delete Member"}

\* render_membership_management() in the script run in which the user
\* pressed the button: [ok, msg, members].  It takes no argument and asks
\* for no permission.
render_membership_management(button, member_id, name, new_id) ==
    CASE button = "Add Member" ->
            IF Len(name) = 0
            THEN [ok |-> FALSE, msg |-> MSG_MEMBER_NAME_REQUIRED,
                  members |-> members]
            ELSE add_member(name, new_id)
      [] button = "Update Member" -> update_member(member_id, name)
      [] button = "Delete Member" -> delete_member(member_id)

\* the capability app_secure.py computes for the button, and does not pass on
ButtonCapability(button) ==
    CASE button = "Add Member" -> "add_members"
      [] button = "Update Member" -> "edit_members"
      [] button = "Delete Member" -> "delete_members"

\* one run of app_secure.py with the Membership Management page selected
\* and a button of the page pressed: [ok, msg, ss, sessions, members,
\* audit].  After an update or a deletion st.rerun() runs the script again,
\* and that run writes the PAGE_ACCESS row.
membership_page(button, member_id, name, new_id) ==
    LET chk == check_authentication
    IN  IF ~chk.ok
        THEN [ok |-> FALSE, msg |-> MSG_LOGIN_PAGE, ss |-> chk.ss,
              sessions |-> chk.sessions, members |-> members,
              audit |-> audit]
        ELSE IF ~has_permission(chk.ss.user.role, "view_members")
        THEN [ok |-> FALSE, msg |-> MSG_NO_MEMBERSHIP, ss |-> chk.ss,
              sessions |-> chk.sessions, members |-> members,
              audit |-> audit]
        ELSE LET run == render_membership_management(button, member_id,
                                                     name, new_id)
             IN  [ok |-> run.ok, msg |-> run.msg, ss |-> chk.ss,
                  sessions |-> chk.sessions, members |-> run.members,
                  audit |-> log_audit_event(chk.ss.user.user_id,
                                            "PAGE_ACCESS")]

\* the select box of the Manage Members tab offers the members of the table
MembershipPage(button, member_id, name, new_id) ==
    LET out == membership_page(button, member_id, name, new_id)
    IN  /\ button \in MemberButtons
        /\ button # "Add Member" => member_id \in MemberIds
        /\ new_id \notin MemberIds
        /\ Len(out.audit) <= MaxPageAudit
        /\ ss' = out.ss
        /\ sessions' = out.sessions
        /\ members' = out.members
        /\ audit' = out.audit
        /\ ret' = Result("membership_page", <<button, member_id, name>>,
                         out.ok, out.msg, NoData)
        /\ UNCHANGED <<users, now, inflight, streak, perm, pending>>

----------------------------------------------------------------------------
(* The clock *)

NoCall == Result("", <<>>, FALSE, "", NoData)

\* time passes: the last call is no longer the one that has just returned
Tick(d, limit) ==
    /\ now + d <= limit
    /\ now' = now + d
    /\ ret' = NoCall
    /\ UNCHANGED <<users, sessions, audit, ss, inflight, streak, perm, members, pending>>

----------------------------------------------------------------------------
(* Permission table queries *)

HasPermission(user_role, permission) ==
    /\ perm' = [role |-> user_role, permission |-> permission,
                answer |-> has_permission(user_role, permission)]
    /\ UNCHANGED <<users, sessions, audit, now, ss, inflight, ret, streak,
                   members, pending>>

----------------------------------------------------------------------------
(* Construction: initialize_auth_tables on a new database creates the three *)
(* tables empty and, the users table being empty, the default admin         *)

Init ==
    /\ now = 0
    /\ users = <<NewUserRow(Str_admin, Str_admin_email,
                            hash_password(Str_admin123, "s1")[1],
                            hash_password(Str_admin123, "s1")[2],
                            ADMIN, "System Administrator")>>
    /\ sessions = <<>>
    /\ audit = <<[user_id |-> 1, action |-> "USER_CREATED"]>>
    /\ ss = LoggedOut
    /\ inflight = [w \in 1..MaxInflight |-> Idle]
    /\ ret = NoCall
    /\ streak = <<[n |-> 0, at |-> NULL]>>
    /\ perm = [role |-> "", permission |-> "", answer |-> FALSE]
    /\ members = {}
    /\ pending = [w \in 1..MaxInflight |-> Idle]

\* the database before initialize_auth_tables has ever run: no table has a
\* row
InitEmpty ==
    /\ now = 0
    /\ users = <<>>
    /\ sessions = <<>>
    /\ audit = <<>>
    /\ ss = LoggedOut
    /\ inflight = [w \in 1..MaxInflight |-> Idle]
    /\ ret = NoCall
    /\ streak = <<>>
    /\ perm = [role |-> "", permission |-> "", answer |-> FALSE]
    /\ members = {}
    /\ pending = [w \in 1..MaxInflight |-> Idle]

----------------------------------------------------------------------------
(* Inputs *)

Usernames == {Str_admin, Str_alice}
Passwords == {Str_admin123, Str_secret1, Str_wrong}
UserIds == 1..MaxUsers
Tokens == 0..MaxSessions

\* keyword arguments of update_user that name columns outside the whitelist
\* beside columns inside it
MixedKwargs ==
    [username |-> Str_al, password_hash |-> pbkdf2_hmac(Str_wrong, "s0"),
     salt |-> "s0", failed_login_attempts |-> 9, locked_until |-> 99,
     email |-> Str_other_email, full_name |-> "Alice B", role |-> VIEWER]

\* keyword arguments of update_user
Kwargs ==
    {[is_active |-> FALSE], [role |-> "root"],
     [email |-> Str_alice_email], [email |-> Str_admin_email],
     [username |-> Str_alice],
     MixedKwargs}

----------------------------------------------------------------------------
(* Lockout specification: the credential store under a clock that moves in *)
(* halves of the lock period                                               *)

LockTicks == {15, 30}

NextLock ==
    \/ \E u \in Usernames, p \in {Str_admin123, Str_wrong} :
          Authenticate(u, p)
    \/ \E w \in {1} :
          CreateUserBegin(w, Str_alice, Str_alice_email, Str_admin123,
                          "Alice A", MEMBER)
    \/ \E w \in {1} : CreateUserInsert(w, "s1")
    \/ \E id \in UserIds, k \in {[is_active |-> FALSE], [is_active |-> TRUE]} :
          UpdateUser(id, k)
    \/ \E d \in LockTicks : Tick(d, MaxTime)

SpecLock == Init /\ [][NextLock]_vars

----------------------------------------------------------------------------
(* Session specification: the session store over users that are created,   *)
(* deactivated and reactivated, under a clock that moves by one session    *)
(* lifetime at a time                                                      *)

SessionTicks == {1440}

Next ==
    \/ \E id \in UserIds : CreateSession(id)
    \/ \E t \in Tokens : ValidateSession(t)
    \/ \E t \in Tokens : LogoutUser(t)
    \/ CreateUserBegin(1, Str_alice, Str_alice_email, Str_admin123,
                       "Alice A", MEMBER)
    \/ CreateUserInsert(1, "s1")
    \/ \E id \in UserIds :
          \E k \in {[is_active |-> FALSE], [is_active |-> TRUE]} :
              UpdateUser(id, k)
    \/ \E d \in SessionTicks : Tick(d, MaxSessionTime)

Spec == Init /\ [][Next]_vars

----------------------------------------------------------------------------
(* Session lifetime specification: one user's sessions under every call of  *)
(* the library that could touch them                                       *)

NextTerminal ==
    \/ \E id \in UserIds : CreateSession(id)
    \/ \E t \in Tokens : ValidateSession(t)
    \/ \E t \in Tokens : LogoutUser(t)
    \/ Authenticate(Str_admin, Str_admin123)
    \/ \E k \in {[is_active |-> FALSE], [is_active |-> TRUE]} :
          UpdateUser(1, k)
    \/ ChangePassword(1, Str_admin123, Str_admin123, "s2")
    \/ \E d \in SessionTicks : Tick(d, MaxSessionTime)

SpecTerminal == Init /\ [][NextTerminal]_vars

----------------------------------------------------------------------------
(* Browser specification: the login form, the logout button and the        *)
(* authentication check of one browser session, beside direct calls on     *)
(* the session store                                                       *)

NextUI ==
    \/ \E p \in {Str_admin123, Str_wrong} : HandleLogin(Str_admin, p)
    \/ CheckAuthentication
    \/ RenderLogoutButton
    \/ CreateSession(1)
    \/ \E t \in Tokens : ValidateSession(t)
    \/ \E t \in Tokens : LogoutUser(t)
    \/ \E k \in {[is_active |-> FALSE], [is_active |-> TRUE]} :
          UpdateUser(1, k)
    \/ \E d \in SessionTicks : Tick(d, MaxSessionTime)

SpecUI == Init /\ [][NextUI]_vars

----------------------------------------------------------------------------
(* Credential store specification: create_user calls that interleave       *)
(* between their SELECT and their INSERT, and update_user                  *)

\* create_user arguments <<username, email, role>>: every pairing of a new
\* or taken username with a new or second email, then one call for each
\* validation failure
NewUserInputs ==
    ({Str_alice, Str_admin} \X {Str_alice_email, Str_other_email} \X {MEMBER})
    \cup {<<Str_al, Str_alice_email, MEMBER>>,
          <<Str_alice, Str_bad_email, MEMBER>>,
          <<Str_alice, Str_alice_email, "root">>}

NextUsers ==
    \/ \E w \in 1..MaxInflight : \E i \in NewUserInputs :
          CreateUserBegin(w, i[1], i[2], Str_secret1, "Alice A", i[3])
    \/ \E w \in 1..MaxInflight : CreateUserInsert(w, "s1")
    \/ \E id \in UserIds, k \in Kwargs : UpdateUser(id, k)

SpecUsers == Init /\ [][NextUsers]_vars

----------------------------------------------------------------------------
(* Update specification: update_user with every kind of keyword argument   *)
(* on users that exist or not and that have failures on record             *)

NextUpdate ==
    \/ CreateUserBegin(1, Str_alice, Str_alice_email, Str_secret1,
                       "Alice A", MEMBER)
    \/ CreateUserInsert(1, "s1")
    \/ Authenticate(Str_alice, Str_wrong)
    \/ \E id \in UserIds, k \in Kwargs : UpdateUser(id, k)

SpecUpdate == Init /\ [][NextUpdate]_vars

----------------------------------------------------------------------------
(* Permission table specification: has_permission asked about every role   *)
(* and capability, known and unknown                                       *)

QueryRoles == get_all_roles \cup {"root", ""}
QueryCapabilities == Capabilities \cup {"export_data", ""}

NextPerm == \E r \in QueryRoles, c \in QueryCapabilities : HasPermission(r, c)

SpecPerm == Init /\ [][NextPerm]_vars

----------------------------------------------------------------------------
(* Password specification: change_password with right and wrong old        *)
(* passwords, long and short new ones, known and unknown ids, between      *)
(* logins that may lock the account                                        *)

OldPasswords == {Str_admin123, Str_secret1}
NewPasswords == {Str_admin123, Str_secret1, Str_wrong}

NextPassword ==
    \/ \E id \in UserIds, old \in OldPasswords, new \in NewPasswords :
          ChangePassword(id, old, new, "s2")
    \/ \E p \in OldPasswords : Authenticate(Str_admin, p)
    \/ \E k \in {[is_active |-> FALSE], [is_active |-> TRUE]} :
          UpdateUser(1, k)
    \/ \E d \in LockTicks : Tick(d, MaxTime)

SpecPassword == Init /\ [][NextPassword]_vars

----------------------------------------------------------------------------
(* Registration specification: create_user with every mix of acceptable    *)
(* and unacceptable username, email, password and role, and the logins of  *)
(* the user it creates                                                     *)

NewUsernames == {Str_alice, Str_nobody, Str_al, <<>>}
NewEmails == {Str_alice_email, Str_other_email, Str_bad_email}
NewRoles == {MEMBER, "root"}
NewUserPasswords == {Str_secret1, Str_wrong}

NextCreate ==
    \/ \E u \in NewUsernames, e \in NewEmails, p \in NewUserPasswords,
          r \in NewRoles :
          CreateUserBegin(1, u, e, p, "Alice A", r)
    \/ CreateUserInsert(1, "s1")
    \/ \E u \in {Str_alice, Str_nobody}, p \in NewUserPasswords :
          Authenticate(u, p)

SpecCreate == Init /\ [][NextCreate]_vars

----------------------------------------------------------------------------
(* Failure specification: the forms of one browser session while the       *)
(* INSERT of create_session and that of log_audit_event may fail           *)

NextFault ==
    \/ \E u \in {Str_admin, Str_nobody}, session_ok, audit_ok \in BOOLEAN :
          HandleLoginUnder(u, Str_admin123, session_ok, audit_ok)
    \/ \E audit_ok \in BOOLEAN : RenderLogoutButtonUnder(audit_ok)
    \/ \E confirm_password \in {Str_secret1, Str_wrong},
          audit_ok \in BOOLEAN :
          RenderAddUserForm(Str_alice, Str_alice_email, "Alice A",
                            Str_secret1, confirm_password, MEMBER, "s1",
                            audit_ok)
    \/ \E id \in UserIds, audit_ok \in BOOLEAN :
          ToggleUserStatus(id, audit_ok)
    \/ \E current_password \in {Str_admin123, Str_wrong},
          audit_ok \in BOOLEAN :
          ChangePasswordForm(current_password, Str_admin123, Str_admin123,
                             "s2", audit_ok)

SpecFault == Init /\ [][NextFault]_vars

----------------------------------------------------------------------------
(* Bootstrap specification: initialize_auth_tables run again and again     *)
(* from the empty database, between logins, a change of the admin's        *)
(* password and the creation of a second user                              *)

BootSalts == {"s1", "s3"}

NextBoot ==
    \/ \E salt \in BootSalts : InitializeAuthTables(salt)
    \/ \E p \in OldPasswords : Authenticate(Str_admin, p)
    \/ ChangePassword(1, Str_admin123, Str_secret1, "s2")
    \/ CreateUserBegin(1, Str_alice, Str_alice_email, Str_secret1,
                       "Alice A", MEMBER)
    \/ CreateUserInsert(1, "s1")

SpecBoot == InitEmpty /\ [][NextBoot]_vars

----------------------------------------------------------------------------
(* Lock and session specification: sessions of an account on which wrong   *)
(* passwords are tried                                                     *)

NextRevoke ==
    \/ CreateSession(1)
    \/ \E p \in {Str_admin123, Str_wrong} : Authenticate(Str_admin, p)
    \/ \E t \in Tokens : ValidateSession(t)
    \/ \E t \in Tokens : LogoutUser(t)
    \/ \E d \in LockTicks : Tick(d, MaxTime)

SpecRevoke == Init /\ [][NextRevoke]_vars

----------------------------------------------------------------------------
(* Interleaving specification: authenticate_user run by several callers at *)
(* once, each statement of a call a step of its own                        *)

NextRace ==
    \/ \E w \in 1..MaxInflight : \E u \in {Str_admin, Str_nobody} :
          \E p \in {Str_admin123, Str_wrong} : AuthenticateRead(w, u, p)
    \/ \E w \in 1..MaxInflight : AuthenticateWrite(w)
    \/ \E d \in LockTicks : Tick(d, MaxTime)

SpecRace == Init /\ [][NextRace]_vars

----------------------------------------------------------------------------
(* Lockout columns specification: every call of the library on an account  *)
(* on which wrong passwords are tried                                      *)

LockoutKwargs ==
    {[is_active |-> FALSE], [is_active |-> TRUE],
     [failed_login_attempts |-> 0], [locked_until |-> NULL]}

NextCounters ==
    \/ \E p \in {Str_admin123, Str_wrong} : Authenticate(Str_admin, p)
    \/ \E k \in LockoutKwargs : UpdateUser(1, k)
    \/ ChangePassword(1, Str_admin123, Str_admin123, "s2")
    \/ CreateSession(1)
    \/ \E t \in Tokens : ValidateSession(t)
    \/ \E t \in Tokens : LogoutUser(t)
    \/ Tick(LOCK_MINUTES, MaxTime)

SpecCounters == Init /\ [][NextCounters]_vars

----------------------------------------------------------------------------
(* Membership specification: the admin logs in, the role of the account    *)
(* is changed, and the buttons of the Membership Management page are       *)
(* pressed                                                                 *)

MemberNames == {Str_alice, Str_al, Str_blank_a, <<>>}
MemberRoles == {ADMIN, SECRETARY, MEMBER, VIEWER}

NextMembers ==
    \/ HandleLogin(Str_admin, Str_admin123)
    \/ \E r \in MemberRoles : UpdateUser(1, [role |-> r])
    \/ \E b \in MemberButtons : \E id, new_id \in 1..MaxMembers :
          \E name \in MemberNames : MembershipPage(b, id, name, new_id)
    \/ \E t \in Tokens : LogoutUser(t)

SpecMembers == Init /\ [][NextMembers]_vars

----------------------------------------------------------------------------
(* Authorization specification: pages asking for a capability in a browser *)
(* session whose user is demoted, promoted, deactivated and reactivated    *)
(* and whose session is revoked or expires                                 *)

PageCapabilities == {"manage_users", "view_dashboard", "export_data"}

NextAuthz ==
    \/ HandleLogin(Str_admin, Str_admin123)
    \/ \E c \in PageCapabilities : CheckPagePermission(c)
    \/ \E t \in Tokens : LogoutUser(t)
    \/ \E k \in {[role |-> VIEWER], [role |-> ADMIN],
                  [is_active |-> FALSE], [is_active |-> TRUE]} :
          UpdateUser(1, k)
    \/ \E d \in SessionTicks : Tick(d, MaxSessionTime)

SpecAuthz == Init /\ [][NextAuthz]_vars

----------------------------------------------------------------------------
(* Role specification: the role of the logged-in account is changed        *)
(* between validations of its session and permission checks                *)

NextRole ==
    \/ HandleLogin(Str_admin, Str_admin123)
    \/ \E r \in {VIEWER, SECRETARY, ADMIN} : UpdateUser(1, [role |-> r])
    \/ \E t \in Tokens : ValidateSession(t)
    \/ CheckAuthentication
    \/ \E c \in PageCapabilities : CheckPagePermission(c)
    \/ \E t \in Tokens : LogoutUser(t)
    \/ \E d \in SessionTicks : Tick(d, MaxSessionTime)

SpecRole == Init /\ [][NextRole]_vars

----------------------------------------------------------------------------
(* Claims on the lockout *)

\* an authenticate call made in this step, directly or by the login form
AuthCall(u, p) == Authenticate(u, p) \/ HandleLogin(u, p)

WrongPassword(id, p) ==
    ~verify_password(p, users[id].password_hash, users[id].salt)

\* C1: once an active user has had 5 consecutive failed authenticate calls
\* (wrong password, no success in between), every authenticate call for that
\* username made less than 30 minutes after the 5th failure fails with the
\* account-locked message, whatever password it gives.
C1_LockedAfterFiveFailures ==
    [][\A id \in DOMAIN users : \A p \in Passwords :
          (/\ streak[id].n = LOCK_THRESHOLD
           /\ now - streak[id].at < LOCK_MINUTES
           /\ AuthCall(users[id].username, p))
          => (~ret'.ok /\ ret'.msg = MSG_LOCKED)]_vars

\* C1 witness: the correct password was refused with the locked message
\* some time after the 5th failure and before the 30 minutes were over
C1_Witness ==
    /\ ret.op = "authenticate"
    /\ ret.msg = MSG_LOCKED
    /\ \E id \in DOMAIN users :
          /\ users[id].username = ret.args[1]
          /\ ~WrongPassword(id, ret.args[2])
          /\ users[id].is_active
          /\ streak[id].n = LOCK_THRESHOLD
          /\ now > streak[id].at
          /\ now - streak[id].at < LOCK_MINUTES

\* the k-th consecutive wrong-password call for an active, unlocked user
KthFailure(id, p, k) ==
    /\ streak[id].n = k - 1
    /\ users[id].is_active
    /\ WrongPassword(id, p)
    /\ AuthCall(users[id].username, p)

\* C2 as claimed: the first four wrong-password calls return "Invalid
\* username or password" and leave the account unlocked, and the fifth
\* returns the account-locked message.
C2_Original ==
    [][\A id \in DOMAIN users : \A p \in Passwords :
          /\ \A k \in 1..(LOCK_THRESHOLD - 1) :
                KthFailure(id, p, k) =>
                    /\ ret'.msg = MSG_INVALID
                    /\ users'[id].locked_until = NULL
          /\ KthFailure(id, p, LOCK_THRESHOLD) => ret'.msg = MSG_LOCKED]_vars

\* C2 amended: the first four wrong-password calls return "Invalid username
\* or password" and leave the account unlocked; the fifth returns the same
\* message and sets the lock to 30 minutes from now, so that the locked
\* message is first returned by the sixth call.
C2_FifthFailureLocksSilently ==
    [][\A id \in DOMAIN users : \A p \in Passwords :
          /\ \A k \in 1..(LOCK_THRESHOLD - 1) :
                KthFailure(id, p, k) =>
                    /\ ret'.msg = MSG_INVALID
                    /\ users'[id].locked_until = NULL
                    /\ users'[id].failed_login_attempts = k
          /\ KthFailure(id, p, LOCK_THRESHOLD) =>
                /\ ret'.msg = MSG_INVALID
                /\ users'[id].failed_login_attempts = LOCK_THRESHOLD
                /\ users'[id].locked_until = now + LOCK_MINUTES]_vars

\* C2 witness: the fifth failure has just been answered "Invalid username or
\* password" and the account is locked
C2_Witness ==
    /\ ret.op = "authenticate"
    /\ ret.msg = MSG_INVALID
    /\ \E id \in DOMAIN users :
          /\ users[id].username = ret.args[1]
          /\ streak[id].n = LOCK_THRESHOLD
          /\ streak[id].at = now
          /\ users[id].failed_login_attempts = LOCK_THRESHOLD
          /\ users[id].locked_until = now + LOCK_MINUTES

----------------------------------------------------------------------------
(* Claims on the sessions *)

\* C3 as claimed: validate_session reports valid only if the session is
\* active and the current time is strictly less than its expiry, so that at
\* now = expiry the session is already unusable.
C3_Original ==
    [][\A t \in Tokens :
          (ValidateSession(t) /\ ret'.ok) =>
              /\ t \in DOMAIN sessions
              /\ sessions[t].is_active
              /\ now < sessions[t].expires_at]_vars

\* C4 as claimed: for every user_id passed to create_session, validate_session
\* on the returned token, called at once, returns valid with that user_id and
\* the user's username and role.
C4_Original ==
    ret.op = "create_session" =>
        LET v == validate_session(ret.data.token)
        IN  /\ v.ok
            /\ v.data.user_id = ret.args[1]
            /\ v.data.username = users[ret.args[1]].username
            /\ v.data.role = users[ret.args[1]].role

\* C4 amended: validate_session on the token create_session(user_id) has just
\* returned is valid exactly when user_id is the id of an existing user whose
\* active flag is set, and then it returns that user_id and the user's
\* username and role; for any other user_id it returns invalid.
C4_ValidAfterCreateIffActiveUser ==
    ret.op = "create_session" =>
        LET v == validate_session(ret.data.token)
            user_id == ret.args[1]
        IN  /\ v.ok <=> (user_id \in DOMAIN users /\ users[user_id].is_active)
            /\ v.ok =>
                /\ v.data.user_id = user_id
                /\ v.data.username = users[user_id].username
                /\ v.data.role = users[user_id].role

\* C4 witness: a session was just created for an existing active user, some
\* time after the start
C4_Witness ==
    /\ ret.op = "create_session"
    /\ ret.args[1] \in DOMAIN users
    /\ users[ret.args[1]].is_active
    /\ now > 0
    /\ validate_session(ret.data.token).ok

\* C5 as claimed: a session's expiry is its creation time plus 24 hours and
\* no call changes it; a validate_session call made after the expiry has
\* passed returns invalid and leaves the session inactive.
C5_Original ==
    [][/\ \A id \in UserIds :
            CreateSession(id) =>
                sessions'[Len(sessions')].expires_at = now + SESSION_MINUTES
       /\ \A t \in DOMAIN sessions :
            /\ sessions'[t].expires_at = sessions[t].expires_at
            /\ (ValidateSession(t) /\ now > sessions[t].expires_at) =>
                  (~ret'.ok /\ ~sessions'[t].is_active)]_vars

\* C7: once a session's active flag is false, it stays false and no
\* validate_session call on its token returns valid, whatever calls of
\* create_session, validate_session, logout_user, authenticate_user,
\* update_user and change_password follow.
C7_InactiveIsTerminal ==
    [][\A t \in DOMAIN sessions :
          ~sessions[t].is_active =>
              /\ ~sessions'[t].is_active
              /\ ~validate_session(t).ok
              /\ ValidateSession(t) => ~ret'.ok]_vars

\* C7 witness: validate_session has just refused a logged-out session that
\* has not expired and whose user is active
C7_Witness ==
    /\ ret.op = "validate_session"
    /\ ~ret.ok
    /\ ret.args[1] \in DOMAIN sessions
    /\ LET s == sessions[ret.args[1]]
       IN  /\ ~s.is_active
           /\ now < s.expires_at
           /\ now > 0
           /\ s.user_id \in DOMAIN users
           /\ users[s.user_id].is_active

----------------------------------------------------------------------------
(* Claims on the browser session *)

\* C6: right after logout_user(token), validate_session(token) returns
\* invalid and, if the browser session holds that token, its
\* check_authentication returns false; right after the Logout button has
\* logged the browser session out, validate_session on its token returns
\* invalid and check_authentication returns false.
C6_LogoutInvalidates ==
    /\ ret.op = "logout_user" =>
          /\ ~validate_session(ret.args[1]).ok
          /\ ss.session_token = ret.args[1] => ~check_authentication.ok
    /\ ret.op = "render_logout_button" =>
          /\ ~validate_session(ret.args[1]).ok
          /\ ~check_authentication.ok

\* C6 witness: the Logout button has just revoked a session that had not
\* expired and whose user is active
C6_Witness ==
    /\ ret.op = "render_logout_button"
    /\ ret.ok
    /\ ret.args[1] \in DOMAIN sessions
    /\ now < sessions[ret.args[1]].expires_at
    /\ users[sessions[ret.args[1]].user_id].is_active
    /\ ~ss.authenticated

----------------------------------------------------------------------------
(* Claims on the credential store *)

UsersUnique ==
    \A i, j \in DOMAIN users :
        i # j => /\ users[i].username # users[j].username
                 /\ users[i].email # users[j].email

\* C8: no two users share a username and no two share an email, in every
\* state, also after update_user changed an email and create_user calls
\* interleaved; a create_user call whose username or email is present when
\* it looks, or when it writes, fails and adds no row.
C8_UniqueUsernameEmail ==
    /\ []UsersUnique
    /\ [][/\ Len(users') > Len(users) =>
                ~UserExists(users'[Len(users')].username,
                            users'[Len(users')].email)
          /\ (/\ ret'.op = "create_user"
              /\ \/ ret' # ret
                 \/ \E w \in 1..MaxInflight :
                       inflight[w].busy /\ ~inflight'[w].busy
              /\ UserExists(ret'.args[1], ret'.args[2]))
             => (~ret'.ok /\ users' = users)]_vars

\* C8 witness: of two create_user calls that both passed the SELECT, the
\* second to write has just been refused by the UNIQUE constraint
C8_Witness ==
    /\ ret.op = "create_user"
    /\ ~ret.ok
    /\ ret.msg = MSG_CREATE_ERROR
    /\ Len(users) = 2
    /\ \E i \in DOMAIN users :
          users[i].username = ret.args[1] \/ users[i].email = ret.args[2]

\* C9 as claimed: every stored user's role is one of admin, treasurer,
\* secretary, member, viewer after any create_user and update_user calls.
C9_Original == \A i \in DOMAIN users : users[i].role \in get_all_roles

----------------------------------------------------------------------------
(* Claims on the permission table *)

\* the roles that hold each capability
CapabilityHolders ==
    [view_dashboard |-> {ADMIN, TREASURER, SECRETARY, MEMBER, VIEWER},
     view_members |-> {ADMIN, TREASURER, SECRETARY, MEMBER},
     add_members |-> {ADMIN, TREASURER, SECRETARY},
     edit_members |-> {ADMIN, TREASURER, SECRETARY},
     delete_members |-> {ADMIN},
     view_finances |-> {ADMIN, TREASURER, SECRETARY, MEMBER},
     add_transactions |-> {ADMIN, TREASURER},
     edit_transactions |-> {ADMIN, TREASURER},
     delete_transactions |-> {ADMIN, TREASURER},
     view_reports |-> {ADMIN, TREASURER, SECRETARY, MEMBER, VIEWER},
     generate_reports |-> {ADMIN, TREASURER, SECRETARY},
     manage_users |-> {ADMIN},
     system_settings |-> {ADMIN}]

\* C10: has_permission(role, capability) is the static table: true for admin
\* on each of the 13 capabilities, true for another role exactly on its
\* subset, false for an unknown role and for an unknown capability name.
C10_PermissionTable ==
    /\ DOMAIN CapabilityHolders = Capabilities
    /\ Cardinality(Capabilities) = 13
    /\ \A c \in Capabilities : ADMIN \in CapabilityHolders[c]
    /\ perm.answer =
          (/\ perm.permission \in DOMAIN CapabilityHolders
           /\ perm.role \in CapabilityHolders[perm.permission])

\* C10 witnesses: the viewer was refused manage_users
C10_Witness ==
    /\ perm.role = VIEWER
    /\ perm.permission = "manage_users"
    /\ ~perm.answer

----------------------------------------------------------------------------
(* Claims on authenticate_user *)

\* the result a call with a username that matches no user would get now
UnknownUserResult(p) == authenticate_user(Str_nobody, p)

SameAsUnknownUser(r, p) ==
    /\ r.ok = UnknownUserResult(p).ok
    /\ r.msg = UnknownUserResult(p).msg
    /\ r.data = UnknownUserResult(p).data

\* C12 as stated: every authenticate call that gives a wrong password for an
\* existing user returns the result of a call for an unknown username.
C12_Original ==
    [][\A id \in DOMAIN users : \A p \in Passwords :
          (WrongPassword(id, p) /\ AuthCall(users[id].username, p))
          => SameAsUnknownUser(ret', p)]_vars

\* C12: an authenticate call that gives a wrong password for an existing
\* user who is active and not locked returns the same success flag, message
\* and payload as a call for a username that matches no user.
C12_WrongPasswordLikeUnknownUser ==
    [][\A id \in DOMAIN users : \A p \in Passwords :
          (/\ WrongPassword(id, p)
           /\ users[id].is_active
           /\ ~(users[id].locked_until # NULL /\ users[id].locked_until > now)
           /\ AuthCall(users[id].username, p))
          => SameAsUnknownUser(ret', p)]_vars

\* C12 witness: a wrong password for the admin was refused with the result
\* of an unknown username, and counted
C12_Witness ==
    /\ ret.op = "authenticate"
    /\ ret.args = <<Str_admin, Str_wrong>>
    /\ SameAsUnknownUser(ret, Str_wrong)
    /\ users[1].failed_login_attempts = 1

NoSuchUser(u) == \A i \in DOMAIN users : users[i].username # u

\* C13: an authenticate call whose username matches no user leaves the users
\* table as it was, every time it is made: no row is added, no row changes,
\* no failed-attempt count and no lock is recorded.
C13_UnknownUserLeavesNoTrace ==
    [][\A u \in Usernames : \A p \in Passwords :
          (NoSuchUser(u) /\ AuthCall(u, p))
          => (users' = users /\ ~ret'.ok)]_vars

\* C13 witness: alice, who has no account yet, was refused while the admin's
\* count of failures stayed where earlier failures had put it
C13_Witness ==
    /\ ret.op = "authenticate"
    /\ ret.args[1] = Str_alice
    /\ NoSuchUser(Str_alice)
    /\ ~ret.ok
    /\ users[1].failed_login_attempts = 2

\* C14: a successful authenticate call leaves the user with failed_attempts
\* 0 and no lock-until, so that only consecutive failures count: a
\* lock-until is on record only for a user whose last 5 or more wrong-password
\* calls had no success among them.
C14_SuccessResetsCount ==
    /\ [](\A id \in DOMAIN users :
            users[id].locked_until # NULL => streak[id].n = LOCK_THRESHOLD)
    /\ [][\A id \in DOMAIN users : \A p \in Passwords :
            (AuthCall(users[id].username, p) /\ ret'.ok)
            => /\ users'[id].failed_login_attempts = 0
               /\ users'[id].locked_until = NULL]_vars

\* C14 witness: a login succeeded for a user who had 4 failures on record
\* and left none
C14_Witness ==
    /\ ret.op = "authenticate"
    /\ ret.ok
    /\ ret.data.failed_login_attempts = 4
    /\ users[ret.data.id].failed_login_attempts = 0
    /\ users[ret.data.id].locked_until = NULL

\* the time at which the lock on record was set
LockSetAt(id) == users[id].locked_until - LOCK_MINUTES

\* C15: the lock clears by itself: when 30 minutes or more have passed since
\* the lock on record was set, an authenticate call with the correct
\* password for an active user succeeds, nothing else having been done to
\* the account.
C15_LockClearsByItself ==
    [][\A id \in DOMAIN users : \A p \in Passwords :
          (/\ users[id].locked_until # NULL
           /\ now - LockSetAt(id) >= LOCK_MINUTES
           /\ users[id].is_active
           /\ ~WrongPassword(id, p)
           /\ AuthCall(users[id].username, p))
          => (ret'.ok /\ ret'.msg = MSG_AUTH_OK)]_vars

\* C15 witness: the correct password was accepted at the very minute the
\* lock ran out
C15_Witness ==
    /\ ret.op = "authenticate"
    /\ ret.ok
    /\ ret.data.locked_until # NULL
    /\ ret.data.locked_until = now
    /\ ret.data.failed_login_attempts >= LOCK_THRESHOLD

\* C24: authenticate_user tests unknown user, lock, active flag and
\* password in this order: for a username no row carries the answer is
\* "Invalid username or password"; for a locked user, inactive or not, it is
\* the lock message; for an inactive user that is not locked it is "Account
\* is deactivated"; both refusals are given whatever the password, and a
\* call refused for the lock or the flag leaves failed_login_attempts and
\* locked_until of every user as they were.
C24_CheckOrder ==
    [][(ret'.op = "authenticate" /\ inflight' = inflight)
       => \A ids \in {UserIdsByName(ret'.args[1])} :
             /\ ids = {} => (~ret'.ok /\ ret'.msg = MSG_INVALID)
             /\ \A id \in ids :
                   /\ IsLocked(users[id])
                         => (~ret'.ok /\ ret'.msg = MSG_LOCKED
                             /\ users' = users)
                   /\ (~IsLocked(users[id]) /\ ~users[id].is_active)
                         => (~ret'.ok /\ ret'.msg = MSG_DEACTIVATED
                             /\ users' = users)
                   /\ (~IsLocked(users[id]) /\ users[id].is_active)
                         => ret'.msg \in {MSG_INVALID, MSG_AUTH_OK}]_vars

\* C24 witness: a user both locked and inactive has just been refused with
\* the lock message, the correct password supplied
C24_Witness ==
    /\ ret.op = "authenticate"
    /\ ret.msg = MSG_LOCKED
    /\ \E id \in UserIdsByName(ret.args[1]) :
          /\ ~users[id].is_active
          /\ IsLocked(users[id])
          /\ ~WrongPassword(id, ret.args[2])

\* C28: the end of a lock leaves failed_login_attempts as it was: the next
\* wrong password given for the active user after the lock on record ran out
\* adds one to the count and locks the account for 30 minutes from that
\* call; and the count of a user never goes down but by a successful
\* authenticate_user call, which makes it 0.
C28_ExpiredLockKeepsCount ==
    [][/\ (ret'.op = "authenticate" /\ inflight' = inflight)
            => \A id \in UserIdsByName(ret'.args[1]) :
                  (/\ users[id].locked_until # NULL
                   /\ ~IsLocked(users[id])
                   /\ users[id].is_active
                   /\ WrongPassword(id, ret'.args[2]))
                  => /\ ~ret'.ok
                     /\ users'[id].failed_login_attempts
                           = users[id].failed_login_attempts + 1
                     /\ users'[id].locked_until = now + LOCK_MINUTES
       /\ \A id \in DOMAIN users :
             users'[id].failed_login_attempts
                < users[id].failed_login_attempts
             => /\ ret'.op = "authenticate" /\ ret'.ok
                /\ ret'.data.id = id
                /\ users'[id].failed_login_attempts = 0]_vars

\* C28 witness: a sixth wrong password, given after the first lock ran out,
\* has locked the account again
C28_Witness ==
    /\ ret.op = "authenticate"
    /\ ~ret.ok
    /\ \E id \in UserIdsByName(ret.args[1]) :
          /\ users[id].failed_login_attempts = LOCK_THRESHOLD + 1
          /\ users[id].locked_until = now + LOCK_MINUTES
          /\ now >= LOCK_MINUTES

\* C29: in every state a user whose locked_until is set has
\* failed_login_attempts >= 5 (so a user with fewer than 5 has no
\* locked_until), and a step that changes failed_login_attempts or
\* locked_until of a user is an authenticate_user call: update_user,
\* change_password, create_session, validate_session and logout_user leave
\* both as they were.
C29_LockoutColumns ==
    /\ [](\A id \in DOMAIN users :
             users[id].locked_until # NULL
             => users[id].failed_login_attempts >= LOCK_THRESHOLD)
    /\ [][\A id \in DOMAIN users \cap DOMAIN users' :
             (\/ users'[id].failed_login_attempts
                    # users[id].failed_login_attempts
              \/ users'[id].locked_until # users[id].locked_until)
             => ret'.op = "authenticate"]_vars

\* C29 witness: update_user has just answered a call that named the
\* columns of the lockout for a locked account, and the lock and the count
\* are still there
C29_Witness ==
    /\ ret.op = "update_user"
    /\ DOMAIN ret.args[2] \subseteq {"failed_login_attempts", "locked_until"}
    /\ users[1].locked_until # NULL
    /\ users[1].failed_login_attempts >= LOCK_THRESHOLD
    /\ \E t \in DOMAIN sessions : sessions[t].user_id = 1

----------------------------------------------------------------------------
(* Claims on update_user, change_password and create_user *)

\* the keyword arguments update_user may act on
Whitelisted(k) == DOMAIN k \cap {"email", "role", "full_name", "is_active"}

\* C16: update_user changes, in the row of its target, only columns that
\* were supplied and are among email, role, full_name and the active flag;
\* the rest of that row (username, password hash, salt, failed_attempts,
\* lock-until) and every other row stay as they were.  It fails with "No
\* valid fields to update" when no such column was supplied and with "User
\* not found" when the id is absent, and a failed call changes nothing.  (The
\* steps that return from update_user are those that leave the calls in
\* flight alone and end with its result.)
C16_UpdateOnlyWhitelisted ==
    [][(ret'.op = "update_user" /\ inflight' = inflight) =>
        LET id == ret'.args[1]
            k == ret'.args[2]
        IN    /\ Len(users') = Len(users)
              /\ \A i \in DOMAIN users : i # id => users'[i] = users[i]
              /\ id \in DOMAIN users =>
                    \A f \in DOMAIN users[id] \ Whitelisted(k) :
                        users'[id][f] = users[id][f]
              /\ Whitelisted(k) = {} =>
                    (~ret'.ok /\ ret'.msg = MSG_NO_FIELDS)
              /\ (Whitelisted(k) # {} /\ id \notin DOMAIN users) =>
                    (~ret'.ok /\ ret'.msg = MSG_NOT_FOUND)
              /\ ~ret'.ok => users' = users]_vars

\* C16 witness: a call that named the username, the password hash, the
\* count and the lock beside whitelisted columns succeeded on a second user,
\* locked by 5 failures, whose username, count and lock are what they were
C16_Witness ==
    /\ ret.op = "update_user"
    /\ ret.args = <<2, MixedKwargs>>
    /\ ret.ok
    /\ users[2].username = Str_alice
    /\ users[2].email = Str_other_email
    /\ users[2].failed_login_attempts = LOCK_THRESHOLD
    /\ users[2].locked_until = now + LOCK_MINUTES

\* an authenticate call made now would succeed
CanLogin(u, p) == authenticate_user(u, p).ok

\* C17 as stated: a successful change_password makes authenticate succeed
\* with the new password and fail with the old one.
C17_Original ==
    [][\A id \in UserIds, old \in OldPasswords, new \in NewPasswords :
          (ChangePassword(id, old, new, "s2") /\ ret'.ok)
          => /\ CanLogin(users[id].username, new)'
             /\ ~CanLogin(users[id].username, old)']_vars

\* C17: change_password fails with "User not found" for an unknown id, with
\* "Current password is incorrect" when the old password does not verify and
\* with the too-short message when the new password has fewer than 6
\* characters, and a failed call leaves the users table as it was.  After a
\* successful call the new password verifies against the stored credential,
\* so authenticate with it succeeds when the user is active and not locked,
\* and authenticate with the old password fails when the new password
\* differs from it.
C17_ChangePassword ==
    [][\A id \in UserIds, old \in OldPasswords, new \in NewPasswords :
          ChangePassword(id, old, new, "s2") =>
              /\ id \notin DOMAIN users =>
                    (~ret'.ok /\ ret'.msg = MSG_NOT_FOUND)
              /\ (id \in DOMAIN users /\ WrongPassword(id, old)) =>
                    (~ret'.ok /\ ret'.msg = MSG_WRONG_PASSWORD)
              /\ (/\ id \in DOMAIN users
                  /\ ~WrongPassword(id, old)
                  /\ Len(new) < 6) =>
                    (~ret'.ok /\ ret'.msg = MSG_NEW_PASSWORD_SHORT)
              /\ ~ret'.ok => users' = users
              /\ ret'.ok =>
                    /\ ~WrongPassword(id, new)'
                    /\ (/\ users[id].is_active
                        /\ ~(/\ users[id].locked_until # NULL
                             /\ users[id].locked_until > now))
                          => CanLogin(users[id].username, new)'
                    /\ new # old => ~CanLogin(users[id].username, old)'
          ]_vars

\* C17 witness: the admin's password was changed to a different one, the
\* admin being active and not locked
C17_Witness ==
    /\ ret.op = "change_password"
    /\ ret.ok
    /\ users[1].is_active
    /\ users[1].locked_until = NULL
    /\ CanLogin(Str_admin, Str_secret1)
    /\ ~CanLogin(Str_admin, Str_admin123)

\* C18: create_user refuses a username of fewer than 3 characters, an email
\* without "@", a password of fewer than 6 characters and a role outside the
\* five known ones, and a refused call adds no row, then or later.  A
\* successful call adds one row with failed_attempts 0, the active flag set
\* and no lock, and an authenticate call made at once with the username and
\* password given succeeds.
C18_CreateUserValidates ==
    [][/\ \A u \in NewUsernames, e \in NewEmails, p \in NewUserPasswords,
             r \in NewRoles :
             (/\ CreateUserBegin(1, u, e, p, "Alice A", r)
              /\ \/ Len(u) < 3
                 \/ ~(\E i \in 1..Len(e) : e[i] = "@")
                 \/ Len(p) < 6
                 \/ r \notin {"admin", "treasurer", "secretary", "member",
                               "viewer"})
             => (~ret'.ok /\ users' = users /\ inflight' = inflight)
       /\ \A c \in {inflight[1]} :
             (CreateUserInsert(1, "s1") /\ ret'.ok)
             => /\ Len(users') = Len(users) + 1
                /\ SubSeq(users', 1, Len(users)) = users
                /\ users'[Len(users')].username = c.username
                /\ users'[Len(users')].failed_login_attempts = 0
                /\ users'[Len(users')].is_active
                /\ users'[Len(users')].locked_until = NULL
                /\ CanLogin(c.username, c.password)']_vars

\* C18 witness: alice was created and can log in with the password given
C18_Witness ==
    /\ ret.op = "create_user"
    /\ ret.ok
    /\ Len(users) = 2
    /\ users[2].username = Str_alice
    /\ users[2].failed_login_attempts = 0
    /\ CanLogin(Str_alice, Str_secret1)

----------------------------------------------------------------------------
(* Claims on logout_user *)

\* C22: logout_user reports success for every token; on a token that no
\* row carries or whose session is already inactive it leaves every session
\* row as it was; it never touches a user row; and a second call with the
\* same token changes nothing the first has not changed.
C22_LogoutIdempotent ==
    [][(ret'.op = "logout_user" /\ inflight' = inflight)
       => \A t \in {ret'.args[1]} :
             /\ ret'.ok
             /\ users' = users
             /\ (t \notin DOMAIN sessions \/ ~sessions[t].is_active)
                    => sessions' = sessions
             /\ t \in DOMAIN sessions => ~sessions'[t].is_active
             /\ \A i \in DOMAIN sessions : i # t => sessions'[i] = sessions[i]
             /\ logout_user(t)' = sessions']_vars

\* C22 witness: logout_user has answered for a token no row carries, while
\* the table holds an active and an inactive session
C22_Witness ==
    /\ ret.op = "logout_user"
    /\ ret.ok
    /\ ret.args[1] # NoToken
    /\ ret.args[1] \notin DOMAIN sessions
    /\ \E i \in DOMAIN sessions : sessions[i].is_active

----------------------------------------------------------------------------
(* Claims on the Membership Management page *)

\* C23: a run of the Membership Management page changes the members table
\* only if the role of the logged-in user has the capability of the button
\* pressed: add_members for "Add Member", edit_members for "Update Member",
\* delete_members for "Delete Member".
C23_Original ==
    [][(ret'.op = "membership_page" /\ members' # members)
       => has_permission(ss'.user.role, ButtonCapability(ret'.args[1]))]_vars

----------------------------------------------------------------------------
(* Claims on the bootstrap *)

\* C21: initialize_auth_tables run on an empty users table creates exactly
\* one user, named "admin" with role admin, who can then authenticate with
\* "admin" / "admin123"; run on a users table that has a row it leaves the
\* table as it was, so that a repeated run adds no second admin and does not
\* undo a change of the admin's password.
C21_BootstrapOnce ==
    [][\A salt \in BootSalts :
          (ret'.op = "initialize_auth_tables" /\ InitializeAuthTables(salt))
          => IF Len(users) = 0
             THEN /\ Len(users') = 1
                  /\ users'[1].username = Str_admin
                  /\ users'[1].role = "admin"
                  /\ users'[1].is_active
                  /\ CanLogin(Str_admin, Str_admin123)'
             ELSE users' = users]_vars

\* C21 witness: the initialization has just run again on a table whose
\* admin had changed password, and the new password is still the one that
\* logs in
C21_Witness ==
    /\ ret.op = "initialize_auth_tables"
    /\ Len(users) = 1
    /\ users[1].username = Str_admin
    /\ CanLogin(Str_admin, Str_secret1)
    /\ ~CanLogin(Str_admin, Str_admin123)

----------------------------------------------------------------------------
(* Claims on the audit log *)

\* C19 as stated: every login attempt that fails, at authentication or at
\* the creation of the session, has appended a failure event to the audit
\* log when handle_login returns (the audit log itself being writable).
C19_Original ==
    [][\A u \in {Str_admin, Str_nobody} : \A session_ok \in BOOLEAN :
          (HandleLoginUnder(u, Str_admin123, session_ok, TRUE) /\ ~ret'.ok)
          => /\ Len(audit') = Len(audit) + 1
             /\ audit'[Len(audit')].action = "LOGIN_FAILED"]_vars

\* the step returns what the handler would have returned, and leaves the
\* users it would have left, had the audit row been written
SameResult(good) ==
    /\ ret'.ok = good.ok
    /\ ret'.msg = good.msg
    /\ ret'.msg # EXC_UNCAUGHT
    /\ users' = good.users

\* C20: a failure of log_audit_event changes nothing but the audit log: the
\* login form, the logout button, the add-user form, the status toggle and
\* the password form return the same result and leave the same users,
\* sessions and session state when the audit INSERT fails as when it runs,
\* and no exception leaves log_audit_event.
C20_AuditFailureChangesNothing ==
    [][/\ \A u \in {Str_admin, Str_nobody} : \A session_ok \in BOOLEAN :
             (ret'.op = "handle_login"
              /\ HandleLoginUnder(u, Str_admin123, session_ok, FALSE)) =>
                 \A good \in {handle_login(u, Str_admin123, session_ok,
                                            TRUE)} :
                     /\ SameResult(good)
                     /\ sessions' = good.sessions
                     /\ ss' = good.ss
                     /\ audit' = audit
       /\ (ret'.op = "render_logout_button"
           /\ RenderLogoutButtonUnder(FALSE)) =>
             \A good \in {render_logout_button(TRUE)} :
                 /\ ret'.ok = good.ok
                 /\ ret'.msg = good.msg
                 /\ ret'.msg # EXC_UNCAUGHT
                 /\ sessions' = good.sessions
                 /\ ss' = good.ss
                 /\ UNCHANGED <<users, audit>>
       /\ \A confirm_password \in {Str_secret1, Str_wrong} :
             (ret'.op = "render_add_user_form"
              /\ RenderAddUserForm(Str_alice, Str_alice_email, "Alice A",
                                   Str_secret1, confirm_password, MEMBER,
                                   "s1", FALSE)) =>
                 \A good \in {render_add_user_form(
                                  check_authentication.ss.user.user_id,
                                  Str_alice, Str_alice_email, "Alice A",
                                  Str_secret1, confirm_password, MEMBER,
                                  "s1", TRUE)} :
                     SameResult(good) /\ audit' = audit
       /\ \A id \in DOMAIN users :
             (ret'.op = "toggle_user_status"
              /\ ToggleUserStatus(id, FALSE)) =>
                 \A good \in {toggle_user_status(
                                  check_authentication.ss.user.user_id, id,
                                  TRUE)} :
                     SameResult(good) /\ audit' = audit
       /\ \A current_password \in {Str_admin123, Str_wrong} :
             (ret'.op = "change_password_form"
              /\ ChangePasswordForm(current_password, Str_admin123,
                                    Str_admin123, "s2", FALSE)) =>
                 \A good \in {change_password_form(
                                  check_authentication.ss.user.user_id,
                                  current_password, Str_admin123,
                                  Str_admin123, "s2", TRUE)} :
                     SameResult(good) /\ audit' = audit]_vars

\* C20 witness: the admin is logged in, with a session, by a login whose
\* audit row could not be written
C20_Witness ==
    /\ ret.op = "handle_login"
    /\ ret.ok
    /\ ss.authenticated
    /\ ss.session_token \in DOMAIN sessions
    /\ \A i \in DOMAIN audit : audit[i].action # "LOGIN_SUCCESS"

----------------------------------------------------------------------------
(* Claims on authorization *)

\* the token is that of an active, unexpired session of an active user
Validates(t) ==
    /\ t \in DOMAIN sessions
    /\ sessions[t].is_active
    /\ sessions[t].expires_at >= now
    /\ sessions[t].user_id \in DOMAIN users
    /\ users[sessions[t].user_id].is_active

\* C11: check_page_permission(capability) returns true only if the token of
\* the browser session validates at that moment and the role the user has at
\* that moment holds the capability; for a token that is unknown, revoked or
\* expired it returns false, a boolean either way.
C11_AuthorizeOnlyValidAndPermitted ==
    [][\A c \in PageCapabilities :
          CheckPagePermission(c) =>
              /\ ret'.ok \in BOOLEAN
              /\ ret'.ok =>
                    /\ Validates(ss.session_token)
                    /\ c \in DOMAIN CapabilityHolders
                    /\ users[sessions[ss.session_token].user_id].role
                          \in CapabilityHolders[c]
              /\ ~Validates(ss.session_token) => ~ret'.ok]_vars

\* C11 witnesses: the page that manages users was granted in a browser one
\* of whose sessions had been revoked
C11_Witness ==
    /\ ret.op = "check_page_permission"
    /\ ret.args[2] = "manage_users"
    /\ ret.ok
    /\ \E t \in DOMAIN sessions : ~sessions[t].is_active

\* C25: a role written by update_user is the role of every validation made
\* after it: a successful validate_session returns the role the users table
\* holds at that moment, a successful check_authentication puts that role
\* into the session state, and check_page_permission of an authenticated
\* browser answers has_permission of that role.
C25_RoleFreshAfterValidation ==
    [][/\ (ret'.op = "validate_session" /\ ret'.ok)
            => ret'.data.role = users'[ret'.data.user_id].role
       /\ (ret'.op \in {"check_authentication", "check_page_permission"}
            /\ ss'.authenticated)
            => ss'.user.role
                  = users'[sessions'[ss'.session_token].user_id].role
       /\ (ret'.op = "check_page_permission" /\ ss'.authenticated)
            => ret'.ok
                  = has_permission(
                       users'[sessions'[ss'.session_token].user_id].role,
                       ret'.args[2])]_vars

\* C25 witness: the account that logged in as admin is a viewer now, its
\* session still validates, and the page that manages users has just been
\* denied to it
C25_Witness ==
    /\ ret.op = "check_page_permission"
    /\ ret.args[2] = "manage_users"
    /\ ~ret.ok
    /\ ss.authenticated
    /\ Validates(ss.session_token)
    /\ ss.user.role = VIEWER
    /\ users[1].role = VIEWER

----------------------------------------------------------------------------
(* Claims on sessions of locked and deactivated accounts *)

\* C26: while the account of a user is locked, no session of that user
\* validates: the lock revokes the sessions issued before it.
C26_Original ==
    \A t \in DOMAIN sessions :
        (/\ sessions[t].user_id \in DOMAIN users
         /\ IsLocked(users[sessions[t].user_id]))
        => ~validate_session(t).ok

----------------------------------------------------------------------------
(* Claims on interleaved authenticate_user calls *)

\* C27: whatever the interleaving of authenticate_user calls,
\* failed_login_attempts of a user is the number of failed password
\* verifications made for it since its last success, as long as that number
\* is below 5, and once 5 verifications have failed the account carries a
\* lock.
C27_Original ==
    \A id \in DOMAIN users :
        /\ streak[id].n < LOCK_THRESHOLD
              => users[id].failed_login_attempts = streak[id].n
        /\ streak[id].n = LOCK_THRESHOLD => users[id].locked_until # NULL

\* C30: update_user leaves the sessions table as it was; validate_session
\* of an active session of a deactivated user returns invalid and, the
\* session not being expired, leaves its row active; so, when the user is
\* activated again before the expiry, the token that did not validate
\* validates again, no login made.
C30_DeactivationKeepsSessions ==
    [][/\ (ret'.op = "update_user" /\ inflight' = inflight)
            => /\ sessions' = sessions
               /\ \A t \in DOMAIN sessions :
                     (/\ sessions[t].is_active
                      /\ ~IsExpired(sessions[t].expires_at)
                      /\ sessions[t].user_id \in DOMAIN users
                      /\ ~users[sessions[t].user_id].is_active
                      /\ users'[sessions[t].user_id].is_active)
                     => (~validate_session(t).ok /\ validate_session(t).ok')
       /\ (ret'.op = "validate_session" /\ inflight' = inflight)
            => \A t \in {ret'.args[1]} \cap DOMAIN sessions :
                  (/\ sessions[t].is_active
                   /\ sessions[t].user_id \in DOMAIN users
                   /\ ~users[sessions[t].user_id].is_active)
                  => /\ ~ret'.ok
                     /\ ~IsExpired(sessions[t].expires_at)
                           => sessions' = sessions]_vars

\* C30 witness: validate_session has just refused the session of a
\* deactivated user, and the row of the session is still active and not
\* expired
C30_Witness ==
    /\ ret.op = "validate_session"
    /\ ~ret.ok
    /\ ret.args[1] \in DOMAIN sessions
    /\ sessions[ret.args[1]].is_active
    /\ ~IsExpired(sessions[ret.args[1]].expires_at)
    /\ sessions[ret.args[1]].user_id \in DOMAIN users
    /\ ~users[sessions[ret.args[1]].user_id].is_active

====
